---- MODULE Spec2Model ----
(***************************************************************************)
(* altv-rpc: the cross-context RPC engine (server, clients, webviews).     *)
(* One RPC instance per context; the contexts exchange envelopes over the  *)
(* alt:V event links.  The model follows index.ts (the chunking version)   *)
(* and util.ts.                                                            *)
(***************************************************************************)
EXTENDS Integers, Sequences, FiniteSets, TLC

\* ------------------------------------------------------------------ bounds
\* user-level calls issued in one behaviour
MaxCalls == 1
\* envelopes the transport may duplicate, and envelopes a player may forge
MaxFaults == 1

\* util.chunk splits at 10000 characters; the model counts tokens and
\* scales the bound so that small payloads span several chunks.
ChunkSize == 4

\* ------------------------------------------------------------ environments
\* An RPC instance is one loaded copy of the module.  The server, each
\* player's client and each webview run one; client p1 runs a second one,
\* "q1", as a second resource bundling the module does.
Players == {"p1", "p2"}
Browsers == {"b1", "b2"}
Seconds == {"q1"}
Clients == Players \cup Seconds
Ctx == {"server"} \cup Clients \cup Browsers

\* the context (the player's client, the webview, the server) an instance runs in
Process(c) == IF c \in Seconds THEN "p1" ELSE c

\* the client that owns a webview
Owner(b) == "p1"

\* util.getEnvironment
getEnvironment(c) ==
    IF c \in Browsers THEN "cef" ELSE IF c \in Clients THEN "client" ELSE "server"

ERR_NOT_FOUND == <<"str", "PROCEDURE_NOT_FOUND">>
INVALID_BROWSER == <<"str", "INVALID_BROWSER">>
TIMEOUT == <<"str", "TIMEOUT">>
CALL_SERVER == "__rpc:callServer"
CALL_BROWSERS == "__rpc:callBrowsers"
TRIGGER_EVENT == "__rpc:triggerEvent"
TRIGGER_EVENT_BROWSERS == "__rpc:triggerEventBrowsers"

\* ------------------------------------------------------------- JS values
Undefined == <<"undefined">>
Null == <<"null">>
NaN == <<"nan">>
Obj == <<"obj">>
Num(n) == <<"num", n>>
\* a number of more digits than the model's integers hold, kept as its digits
Big(digits) == <<"big", digits>>
Str(s) == <<"str", s>>
Arr(s) == <<"arr", s>>
\* a string of n >= 1 line separators (U+2028)
Seps(n) == <<"seps", n>>

\* JS truthiness of the values the code tests with ! and ||
Truthy(v) ==
    CASE v[1] = "num" -> v[2] # 0
      [] v[1] = "str" -> v[2] # ""
      [] v[1] \in {"arr", "obj", "big", "seps"} -> TRUE
      [] OTHER -> FALSE

\* unary plus, as in +extraData.noRet
ToNumber(v) ==
    CASE v[1] \in {"num", "big"} -> v
      [] v[1] \in {"null", "seps"} -> Num(0)
      [] OTHER -> NaN

\* the i-th element of a destructured array, undefined when missing
Elem(v, i) == IF i <= Len(v[2]) THEN v[2][i] ELSE Undefined

\* ---------------------------------------------------------- serialisation
\* A serialised payload is a sequence of tokens: one per digit and per
\* punctuation mark, one per string literal and per keyword.  The literal of
\* a string of line separators is spelled out: a quote, the separators, which
\* JSON.stringify leaves as they are, and a quote.
Digit(d) == <<"d", d>>
Punct(c) == <<"p", c>>
StrTok(s) == <<"s", s>>
NullTok == <<"k", "null">>
Quote == <<"p", "quote">>
Sep == <<"u", 2028>>

RECURSIVE Digits(_)
Digits(n) == IF n < 10 THEN <<Digit(n)>> ELSE Digits(n \div 10) \o <<Digit(n % 10)>>

RECURSIVE stringifyData(_)
RECURSIVE StringifyElems(_, _)
StringifyElems(s, i) ==
    IF i > Len(s) THEN <<>>
    ELSE (IF i > 1 THEN <<Punct(",")>> ELSE <<>>)
         \o (IF s[i][1] = "undefined" THEN <<NullTok>> ELSE stringifyData(s[i]))
         \o StringifyElems(s, i + 1)

\* util.stringifyData: JSON.stringify of a value that is not undefined
stringifyData(v) ==
    CASE v[1] = "num" -> Digits(v[2])
      [] v[1] = "big" -> v[2]
      [] v[1] = "str" -> <<StrTok(v[2])>>
      [] v[1] = "seps" -> <<Quote>> \o [i \in 1..v[2] |-> Sep] \o <<Quote>>
      [] v[1] = "arr" -> <<Punct("[")>> \o StringifyElems(v[2], 1) \o <<Punct("]")>>
      [] v[1] = "obj" -> <<Punct("{}")>>
      [] OTHER -> <<NullTok>>

ParseFail == <<FALSE, Undefined, <<>>>>

\* the value of an expression, computed once
Once(S) == CHOOSE x \in S : TRUE

\* the digits a token sequence starts with, and the number they write
RECURSIVE DigitRun(_)
DigitRun(t) ==
    IF t # <<>> /\ Head(t)[1] = "d" THEN <<Head(t)>> \o DigitRun(Tail(t)) ELSE <<>>

RECURSIVE DigitsValue(_, _)
DigitsValue(run, acc) ==
    IF run = <<>> THEN acc ELSE DigitsValue(Tail(run), acc * 10 + Head(run)[2])

\* the digits the model's integers hold
IntDigits == 9

ParseNumber(t) ==
    Once({<<TRUE,
            IF Len(run) <= IntDigits THEN Num(DigitsValue(run, 0)) ELSE Big(run),
            SubSeq(t, Len(run) + 1, Len(t))>> : run \in {DigitRun(t)}})

\* the literal of a string of line separators, after its opening quote
RECURSIVE ParseSeps(_, _)
ParseSeps(t, n) ==
    IF t = <<>> THEN ParseFail
    ELSE IF Head(t) = Sep THEN ParseSeps(Tail(t), n + 1)
    ELSE IF Head(t) = Quote THEN <<TRUE, IF n = 0 THEN Str("") ELSE Seps(n), Tail(t)>>
    ELSE ParseFail

RECURSIVE ParseValue(_)
RECURSIVE ParseElems(_, _)
\* after an element r of an array: a comma and more elements, or the bracket
ParseAfter(r, acc) ==
    IF ~r[1] \/ r[3] = <<>> THEN ParseFail
    ELSE IF Head(r[3]) = Punct(",") THEN ParseElems(Tail(r[3]), Append(acc, r[2]))
    ELSE IF Head(r[3]) = Punct("]") THEN <<TRUE, Arr(Append(acc, r[2])), Tail(r[3])>>
    ELSE ParseFail

ParseElems(t, acc) == Once({ParseAfter(r, acc) : r \in {ParseValue(t)}})

\* JSON.parse of a token sequence: <<ok, value, rest>>
ParseValue(t) ==
    IF t = <<>> THEN ParseFail
    ELSE LET h == Head(t) IN
         CASE h[1] = "d" ->
                IF h[2] = 0 THEN <<TRUE, Num(0), Tail(t)>> ELSE ParseNumber(t)
           [] h[1] = "k" -> <<TRUE, Null, Tail(t)>>
           [] h[1] = "s" -> <<TRUE, Str(h[2]), Tail(t)>>
           [] h = Quote -> ParseSeps(Tail(t), 0)
           [] h[1] = "p" /\ h[2] = "{}" -> <<TRUE, Obj, Tail(t)>>
           [] h[1] = "p" /\ h[2] = "[" ->
                IF Tail(t) # <<>> /\ Head(Tail(t)) = Punct("]")
                THEN <<TRUE, Arr(<<>>), Tail(Tail(t))>>
                ELSE ParseElems(Tail(t), <<>>)
           [] OTHER -> ParseFail

\* util.parseData: JSON.parse; a failure is logged and undefined is returned
parseData(data) ==
    Once({IF r[1] /\ r[3] = <<>> THEN r[2] ELSE Undefined : r \in {ParseValue(data)}})

\* the longest prefix of at most max characters that `.` matches: `.` matches
\* no line terminator
RECURSIVE Run(_, _)
Run(data, max) ==
    IF data = <<>> \/ max = 0 \/ Head(data) = Sep THEN <<>>
    ELSE <<Head(data)>> \o Run(Tail(data), max - 1)

\* util.chunk: data.match(/.{1,10000}/g), the successive matches; the
\* characters between two matches are in no chunk
RECURSIVE chunk(_)
chunk(data) ==
    IF data = <<>> THEN <<>>
    ELSE IF Head(data) = Sep THEN chunk(Tail(data))
    ELSE Once({<<run>> \o chunk(SubSeq(data, Len(run) + 1, Len(data))) :
                    run \in {Run(data, ChunkSize)}})

\* ------------------------------------------------------------------ state
VARIABLES
    rpcListeners,           \* [Ctx -> [name -> handler]]: procedure listeners
    rpcPending,             \* [Ctx -> [id -> Pending]]: calls waiting on results
    rpcIncoming,            \* [Ctx -> [id -> Incoming]]: partially received events
    rpcBrowsers,            \* [Ctx -> set of webviews]: webviews added with addWebView
    rpcBrowserProcedures,   \* [Ctx -> [name -> webview]]: which webview claimed a name
    valid,                  \* [Browsers -> BOOLEAN]: webView.valid
    net,                    \* [Links -> Seq(message)]: events emitted and not yet received
    calls,                  \* the promises handed out by the call verbs, in creation order
    uidNext,                \* the ids util.uid has handed out so far
    nfaults,                \* transport faults so far
    unregistered,           \* the <<context, name>> pairs whose handler was unregistered
                            \* and not registered since
    last,                   \* what the last step did
    rpcNamespace,           \* [Ctx -> namespace]: "" until init() has succeeded
    namespaces,             \* [context -> set of namespaces]: glob['__rpc:namespaces']
    hooks,                  \* [Ctx -> set of namespaces]: the process events hooked
    rpcEvListeners          \* [Ctx -> [name -> handlers]]: event listeners, in the
                            \* order they were added

\* what init, addWebView, on and off maintain
setup == <<rpcNamespace, namespaces, hooks, rpcEvListeners>>

vars == <<rpcListeners, rpcPending, rpcIncoming, rpcBrowsers, rpcBrowserProcedures,
          valid, net, calls, uidNext, nfaults, unregistered, last, setup>>

PROCESS_EVENT == "__rpc:process"
BROWSER_REGISTER == "__rpc:browserRegister"

\* the alt:V links: client <-> server and webview <-> owning client
Links ==
    {<<p, "server">> : p \in Clients} \cup {<<"server", p>> : p \in Clients}
    \cup {l \in Browsers \X Clients : Process(l[2]) = Owner(l[1])}
    \cup {l \in Clients \X Browsers : Process(l[1]) = Owner(l[2])}

\* procedure names: the user's, the client's pass-through procedures, and a
\* name that every JS object inherits from Object.prototype
UserNames == {"f", "g"}
ProtoNames == {"toString"}
BuiltinNames == {CALL_SERVER, CALL_BROWSERS}
\* getEventName(TRIGGER_EVENT) in an instance of namespace ns
TriggerName(ns) == IF ns = "a" THEN "__rpc:triggerEvent::a" ELSE "__rpc:triggerEvent::b"
TriggerNames == {"__rpc:triggerEvent::a", "__rpc:triggerEvent::b"}
\* getEventName(TRIGGER_EVENT_BROWSERS) in an instance of namespace ns
TriggerBrowsersName(ns) ==
    IF ns = "a" THEN "__rpc:triggerEventBrowsers::a" ELSE "__rpc:triggerEventBrowsers::b"
TriggerBrowsersNames == {"__rpc:triggerEventBrowsers::a", "__rpc:triggerEventBrowsers::b"}
Names ==
    UserNames \cup ProtoNames \cup BuiltinNames \cup TriggerNames \cup TriggerBrowsersNames

\* a promise
Pending == <<"pending">>
Resolved(v) == <<"resolved", v>>
Rejected(r) == <<"rejected", r>>

\* a procedure listener: what the callback does when invoked
Absent == <<"absent">>
HUndefined == <<"undefined">>
Ret(v) == <<"ret", v>>
Throw(r) == <<"throw", r>>
Builtin(n) == <<"builtin", n>>
\* a handler that returns a promise its own code settles later
Later == <<"later">>
Proto == <<"proto">>
UserHandlers == {Ret(Num(42)), Throw(Str("boom"))}

\* what a step did: the operation and its context; for a received event its
\* sender, id and type; the procedure callProcedure was called with, the
\* listener it found and the promise it returned; whether the dispatcher
\* threw; the call a response settled; the response partials sent; the
\* arguments a listener was invoked with; what the operation threw to its
\* caller; the event handlers that ran; the info.environment and the
\* info.player the listener was invoked with
NoStep(op, c) ==
    [op |-> op, ctx |-> c, from |-> "", id |-> 0, type |-> "", threw |-> FALSE,
     proc |-> "", h |-> Absent, res |-> Pending, k |-> 0, sent |-> 0,
     args |-> <<"undefined">>, err |-> "", ran |-> <<>>, env |-> "", player |-> ""]

\* rpcListeners[name] on a plain object: an own property, or else whatever
\* Object.prototype provides under that name
Lookup(c, name) ==
    IF rpcListeners[c][name] # Absent THEN rpcListeners[c][name]
    ELSE IF name \in ProtoNames THEN Proto ELSE HUndefined

\* the listeners init(ns) registers: the pass-through procedures in a client,
\* and the procedure that calls events in every environment
Builtins(c, ns) ==
    [n \in Names |->
        IF getEnvironment(c) = "client" /\ n \in BuiltinNames THEN Builtin(n)
        ELSE IF getEnvironment(c) = "client" /\ n = TriggerBrowsersName(ns)
        THEN Builtin(TRIGGER_EVENT_BROWSERS)
        ELSE IF n = TriggerName(ns) THEN Builtin(TRIGGER_EVENT)
        ELSE Absent]

InitListeners(c) == Builtins(c, "a")

\* the namespaces init() is called with
Namespaces == {"a", "b"}

\* the contexts: each has one global object, shared by the instances in it
Contexts == {Process(c) : c \in Ctx}

\* event names and event handlers: a handler returns or throws
EvNames == {"e"}
EvReturn(i) == <<"returns", i>>
EvThrow(i) == <<"throws", i>>
EvHandlers == {EvReturn(1), EvThrow(2), EvReturn(3)}

NoListeners == [n \in Names |-> Absent]
NoEvListeners == [n \in EvNames |-> <<>>]

\* every context has run init("a") in its first instance; client p1 has added
\* its two webviews; the second instance of client p1 is loaded and no more
Started(listeners, claims) ==
    /\ rpcNamespace = [c \in Ctx |-> IF c \in Seconds THEN "" ELSE "a"]
    /\ namespaces = [x \in Contexts |-> {"a"}]
    /\ hooks = [c \in Ctx |-> IF c \in Seconds THEN {} ELSE {"a"}]
    /\ rpcEvListeners = [c \in Ctx |-> NoEvListeners]
    /\ rpcListeners = listeners
    /\ rpcPending = [c \in Ctx |-> <<>>]
    /\ rpcIncoming = [c \in Ctx |-> <<>>]
    /\ rpcBrowsers = [c \in Ctx |-> {b \in Browsers : Owner(b) = c}]
    /\ rpcBrowserProcedures = claims
    /\ valid = [b \in Browsers |-> TRUE]
    /\ net = [l \in Links |-> <<>>]
    /\ calls = <<>>
    /\ uidNext = 0
    /\ nfaults = 0
    /\ unregistered = {}
    /\ last = NoStep("init", "server")

NoClaims == [c \in Ctx |-> <<>>]

\* the procedure init() registers in a webview is announced like any other
InitClaims == [NoClaims EXCEPT !["p1"] = (TriggerName("a") :> "b1")]

\* the listeners of an instance before user code registers any
StartListeners(c) == IF c \in Seconds THEN NoListeners ELSE InitListeners(c)

\* nothing registered by the user yet
Init == Started([c \in Ctx |-> StartListeners(c)], InitClaims)

\* what the procedure "f" of a context returns in the scenarios below
Returns(c) ==
    CASE c = "server" -> Num(12345)
      [] c = "p1" -> Num(7)
      [] OTHER -> Num(42)

\* the state after register("f", () => v) in the server, in client p1 and in
\* webview b1, whose announcement the client has processed
Registered == {"server", "p1", "b1"}
InitRegistered ==
    Started([c \in Ctx |-> IF c \in Registered
                           THEN [InitListeners(c) EXCEPT !["f"] = Ret(Returns(c))]
                           ELSE StartListeners(c)],
            [NoClaims EXCEPT !["p1"] = ("f" :> "b1") @@ (TriggerName("a") :> "b1")])

\* --------------------------------------------------------------- sendEvent
Envelope(type, id, name, env, fenv, noRet) ==
    [ev |-> PROCESS_EVENT, type |-> type, id |-> id, name |-> name, env |-> env,
     fenv |-> fenv, noRet |-> noRet]

Partial(event, part, total, hasArgs, args) ==
    [ev |-> event.ev, type |-> event.type, id |-> event.id, name |-> event.name,
     env |-> event.env, fenv |-> event.fenv, noRet |-> event.noRet,
     part |-> part, total |-> total, hasArgs |-> hasArgs, args |-> args]

\* sendEvent: the partials handed to the callback, in order
sendEvent(event, args, split) ==
    IF args # Undefined
    THEN LET stringified == stringifyData(args)
             parts == IF split THEN chunk(stringified) ELSE <<stringified>>
         IN [i \in 1..Len(parts) |-> Partial(event, i, Len(parts), TRUE, parts[i])]
    ELSE <<Partial(event, 1, 1, FALSE, <<>>)>>

\* getEventName(PROCESS_EVENT): the process event of an instance's namespace
getEventName(c) == rpcNamespace[c]

\* The instances whose handler runs for an event that instance c emits
\* towards `to` (a player, a webview or the server).  alt.emitClient,
\* alt.emitServer and webView.emit carry the event name of the sender's
\* namespace and reach the instances that hooked that name in init(); a
\* webview's alt.emit carries the bare name and reaches the handler that
\* addWebView attached to the webview, in every client instance that added it.
Receivers(c, to) ==
    IF getEnvironment(c) = "cef"
    THEN {i \in Clients : Process(i) = Owner(c) /\ c \in rpcBrowsers[i]}
    ELSE {i \in Ctx : /\ Process(i) = to
                      /\ getEnvironment(i) # getEnvironment(c)
                      /\ getEventName(c) \in hooks[i]}

\* the events are queued for every receiver
Emit(n, c, to, msgs) ==
    [l \in Links |-> IF l[1] = c /\ l[2] \in Receivers(c, to) THEN n[l] \o msgs ELSE n[l]]

\* ------------------------------------------------- the promise of a call
\* What a call function returns: a promise that is already settled (res), or
\* the promise of a request sent over a link.
LocalPlan(res) ==
    [remote |-> FALSE, res |-> res, link |-> <<"", "">>, name |-> "", args |-> Undefined,
     noRet |-> Undefined, fenv |-> "", split |-> TRUE, player |-> ""]

\* a promise that is resolved at once when no response is wanted
RemotePlanResolving(link, name, args, noRet, fenv, split, player) ==
    [remote |-> TRUE, res |-> IF Truthy(noRet) THEN Resolved(Undefined) ELSE Pending,
     link |-> link, name |-> name, args |-> args, noRet |-> noRet, fenv |-> fenv,
     split |-> split, player |-> player]

RemotePlan(link, name, args, noRet, fenv, split, player) ==
    [remote |-> TRUE, res |-> Pending, link |-> link, name |-> name, args |-> args,
     noRet |-> noRet, fenv |-> fenv, split |-> split, player |-> player]

NameOf(v) == IF v[1] = "str" THEN v[2] ELSE ""

\* listeners.forEach(listener => listener(args, info)): the handlers that
\* run, in the order they were added, up to the first one that throws
RECURSIVE RunHandlers(_)
RunHandlers(listeners) ==
    IF listeners = <<>> THEN <<>>
    ELSE IF Head(listeners)[1] = "throws" THEN <<Head(listeners)>>
    ELSE <<Head(listeners)>> \o RunHandlers(Tail(listeners))

\* what an event handler throws
EvError == <<"str", "handler failed">>

\* callEvent: the handlers that ran, and whether one threw out of callEvent
callEvent(c, name) ==
    LET listeners == IF name \in EvNames THEN rpcEvListeners[c][name] ELSE <<>> IN
    [ran |-> RunHandlers(listeners),
     threw |-> \E i \in DOMAIN listeners : listeners[i][1] = "throws"]

RECURSIVE callProcedure(_, _, _, _)
RECURSIVE _callServer(_, _, _, _, _)
RECURSIVE _callClient(_, _, _, _, _, _)

\* a _callBrowser that looks only at the presence of the webview
_callBrowserUnchecked(c, browser, name, args, noRet, fenv) ==
    IF browser \notin Browsers
    THEN LocalPlan(Rejected(INVALID_BROWSER))
    ELSE RemotePlan(<<c, browser>>, name, args, noRet, fenv, FALSE, "")

\* _callBrowser: reject at once for a webview that is gone, else send
_callBrowser(c, browser, name, args, noRet, fenv) ==
    IF browser \notin Browsers \/ ~valid[browser]
    THEN LocalPlan(Rejected(INVALID_BROWSER))
    ELSE RemotePlan(<<c, browser>>, name, args, noRet, fenv, FALSE, "")

\* _callBrowsers
_callBrowsers(c, player, name, args, noRet, fenv) ==
    CASE getEnvironment(c) = "client" ->
            LET browser == IF name \in DOMAIN rpcBrowserProcedures[c]
                           THEN rpcBrowserProcedures[c][name] ELSE "" IN
            IF browser \notin Browsers \/ ~valid[browser]
            THEN LocalPlan(Rejected(ERR_NOT_FOUND))
            ELSE _callBrowser(c, browser, name, args, noRet, fenv)
      [] getEnvironment(c) = "server" ->
            _callClient(c, player, CALL_BROWSERS,
                        Arr(<<Str(name), args, ToNumber(noRet)>>), noRet, fenv)
      [] OTHER ->
            _callClient(c, "", CALL_BROWSERS,
                        Arr(<<Str(name), args, ToNumber(noRet)>>), noRet, fenv)

\* const listener = rpcListeners[name]
Listener(c, name) == IF name \in Names THEN Lookup(c, name) ELSE HUndefined

\* callProcedure: the promise of the listener's result
callProcedure(c, name, args, infoEnv) ==
    LET listener == Listener(c, name) IN
    CASE listener[1] = "ret" -> LocalPlan(Resolved(listener[2]))
      [] listener[1] = "throw" -> LocalPlan(Rejected(listener[2]))
      [] listener[1] = "proto" -> LocalPlan(Resolved(Str("[object Undefined]")))
      [] listener[1] = "later" -> LocalPlan(Pending)
      [] listener[1] = "builtin" ->
            \* ([name, args, noRet], info) => ...: destructuring a non-array throws
            IF args[1] # "arr" THEN LocalPlan(Rejected(Obj))
            ELSE IF listener[2] = TRIGGER_EVENT
            THEN IF callEvent(c, NameOf(Elem(args, 1))).threw
                 THEN LocalPlan(Rejected(EvError))
                 ELSE LocalPlan(Resolved(Undefined))
            ELSE IF listener[2] = TRIGGER_EVENT_BROWSERS
            THEN \* rpcBrowsers.forEach(...) returns nothing; see Fanout
                 LocalPlan(Resolved(Undefined))
            ELSE IF listener[2] = CALL_SERVER
            THEN _callServer(c, NameOf(Elem(args, 1)), Elem(args, 2), Elem(args, 3), infoEnv)
            ELSE _callBrowsers(c, "", NameOf(Elem(args, 1)), Elem(args, 2), Elem(args, 3),
                               infoEnv)
      [] OTHER -> LocalPlan(Rejected(ERR_NOT_FOUND))

\* a call that finds no listener, whatever is registered
callFindingNone(c, name, args) == LocalPlan(Rejected(ERR_NOT_FOUND))

\* call: a local call
call(c, name, args) == callProcedure(c, name, args, getEnvironment(c))

\* _callServer
_callServer(c, name, args, noRet, fenv) ==
    CASE getEnvironment(c) = "server" -> call(c, name, args)
      [] getEnvironment(c) = "client" ->
            RemotePlan(<<c, "server">>, name, args, noRet, fenv, TRUE, "")
      [] OTHER ->
            \* callClient('__rpc:callServer', [name, args, +extraData.noRet])
            _callClient(c, "", CALL_SERVER, Arr(<<Str(name), args, ToNumber(noRet)>>),
                        Undefined, "")

\* the members of a set, one after the other
RECURSIVE SeqOf(_)
SeqOf(S) ==
    IF S = {} THEN <<>> ELSE LET x == CHOOSE x \in S : TRUE IN <<x>> \o SeqOf(S \ {x})

\* a fan-out that a webview that is gone aborts
FanoutAborting(c, name, args) ==
    IF /\ Listener(c, name) = Builtin(TRIGGER_EVENT_BROWSERS) /\ args[1] = "arr"
       /\ \A b \in rpcBrowsers[c] : valid[b]
    THEN SeqOf(rpcBrowsers[c]) ELSE <<>>

\* the procedure that sends an event to all browsers:
\* rpcBrowsers.forEach(browser => _callBrowser(browser, triggerEventName,
\* [name, args], { fenv: info.environment, noRet: 1 })).  The webviews a
\* request is sent to: for one that is gone _callBrowser returns a rejected
\* promise, which nobody looks at
Fanout(c, name, args) ==
    IF Listener(c, name) = Builtin(TRIGGER_EVENT_BROWSERS) /\ args[1] = "arr"
    THEN SeqOf({b \in rpcBrowsers[c] : valid[b]}) ELSE <<>>

\* the request _callBrowser makes for one of them
FanPlan(c, b, args, infoEnv) ==
    _callBrowser(c, b, TriggerName(rpcNamespace[c]),
                 Arr(<<Elem(args, 1), Elem(args, 2)>>), Num(1), infoEnv)

\* the event handlers a procedure call runs: those callEvent runs when the
\* procedure is the one that calls events
Ran(c, name, args) ==
    IF Listener(c, name) = Builtin(TRIGGER_EVENT) /\ args[1] = "arr"
    THEN callEvent(c, NameOf(Elem(args, 1))).ran ELSE <<>>

\* a _callClient that does not pass the noRet option on
_callClientDroppingNoRet(c, player, name, args, noRet, fenv) ==
    CASE getEnvironment(c) = "client" -> call(c, name, args)
      [] getEnvironment(c) = "server" ->
            RemotePlan(<<c, player>>, name, args, Undefined, fenv, TRUE, player)
      [] OTHER ->
            RemotePlan(<<c, Owner(c)>>, name, args, Undefined, fenv, FALSE, "")

\* _callClient
_callClient(c, player, name, args, noRet, fenv) ==
    CASE getEnvironment(c) = "client" -> call(c, name, args)
      [] getEnvironment(c) = "server" ->
            RemotePlan(<<c, player>>, name, args, noRet, fenv, TRUE, player)
      [] OTHER ->
            RemotePlan(<<c, Owner(c)>>, name, args, noRet, fenv, FALSE, "")

\* ------------------------------------------------------- issuing a request
UserCalls == {k \in DOMAIN calls : calls[k].reply[1] = "user"}

\* the request partials of a remote plan
RequestOf(c, plan, id) ==
    sendEvent(Envelope("REQUEST", id, plan.name, getEnvironment(c), plan.fenv, plan.noRet),
              plan.args, plan.split)

\* a table that holds the newest call only
PendingAfterReplacing(pending, c, plan, id, k) ==
    IF plan.remote /\ ~Truthy(plan.noRet)
    THEN [pending EXCEPT ![c] = (id :> [resolve |-> k, player |-> plan.player])]
    ELSE pending

\* new Promise(resolve => { if (!extraData.noRet) rpcPending[id] = {resolve, player} ... })
PendingAfter(pending, c, plan, id, k) ==
    IF plan.remote /\ ~Truthy(plan.noRet)
    THEN [pending EXCEPT ![c] = (id :> [resolve |-> k, player |-> plan.player]) @@ @]
    ELSE pending

NetAfter(n, c, plan, id) ==
    IF plan.remote THEN Emit(n, c, plan.link[2], RequestOf(c, plan, id)) ELSE n

\* util.uid, when it returns an id that no earlier call was given
uid == uidNext + 1

\* the record kept for the promise a call function returned
CallRecord(c, verb, to, name, args, noRet, timeout, plan, id, reply) ==
    [ctx |-> c, verb |-> verb, to |-> to, name |-> name, args |-> args, noRet |-> noRet,
     timeout |-> timeout, sent |-> plan.args,
     remote |-> plan.remote, id |-> id, inner |-> plan.res, outer |-> plan.res,
     timer |-> IF timeout THEN "armed" ELSE "none", reply |-> reply]

\* the requests of a fan-out, sent with the ids id, id + 1, ...
RECURSIVE SendFan(_, _, _, _, _, _)
SendFan(n, c, fan, args, infoEnv, id) ==
    IF fan = <<>> THEN n
    ELSE SendFan(NetAfter(n, c, FanPlan(c, Head(fan), args, infoEnv), id),
                 c, Tail(fan), args, infoEnv, id + 1)

\* the records of the promises _callBrowser returned in a fan-out; `reply`
\* tells which request, if any, the procedure was called for
FanRecords(c, fan, args, infoEnv, id, reply) ==
    [i \in 1..Len(fan) |->
        CallRecord(c, "relay", fan[i], TriggerName(rpcNamespace[c]),
                   Arr(<<Elem(args, 1), Elem(args, 2)>>), TRUE, FALSE,
                   FanPlan(c, fan[i], args, infoEnv), id + i - 1, reply)]

\* ------------------------------------------------------------ call verbs
\* the verbs that end in a local call(name, args) in context c
Local(c, verb) ==
    \/ verb = "call"
    \/ verb = "callServer" /\ getEnvironment(c) = "server"
    \/ verb = "callClient" /\ getEnvironment(c) = "client"

\* the client a verb goes to or through: the player given, the caller
\* itself, or the client of the calling webview
Client(c, target) ==
    IF getEnvironment(c) = "server" THEN target
    ELSE IF getEnvironment(c) = "cef" THEN Owner(c) ELSE c

\* the context whose procedure a verb calls: the server, the client, the
\* webview given, or the webview that claimed the name at the client ("" if
\* none did)
Callee(c, verb, target, name) ==
    CASE verb = "callServer" -> "server"
      [] verb = "callClient" -> Client(c, target)
      [] verb = "callBrowser" -> target
      [] verb = "callBrowsers" ->
            IF Client(c, target) \in Clients
               /\ name \in DOMAIN rpcBrowserProcedures[Client(c, target)]
            THEN rpcBrowserProcedures[Client(c, target)][name] ELSE ""
      [] OTHER -> c

\* what the exported verb does before promiseTimeout
Verb(c, verb, target, name, args, noRet) ==
    CASE verb = "call" -> call(c, name, args)
      [] verb = "callServer" -> _callServer(c, name, args, noRet, "")
      [] verb = "callClient" -> _callClient(c, target, name, args, noRet, "")
      [] verb = "callBrowsers" -> _callBrowsers(c, target, name, args, noRet, "")
      [] OTHER -> _callBrowser(c, target, name, args, noRet, "")

\* a check that lets every instance pass
requireNamespacePassing(c) == TRUE

\* requireNamespace(): passes when init has stored a namespace, throws an
\* Error otherwise
requireNamespace(c) == rpcNamespace[c] # ""

NO_NAMESPACE == "You must first call rpc.init() with a namespace."

\* call / callServer / callClient / callBrowsers / callBrowser with options
\* {noRet, timeout}; the promise returned is promiseTimeout(inner, timeout).
\* Every verb but call runs requireNamespace() before anything else it does
\* to the state, and the Error leaves the call site with nothing changed.
\* `drawn` is the value util.uid() returns to the call function, and `max`
\* bounds the calls of a behaviour
UserCallId(c, verb, target, name, args, noRet, timeout, drawn, max) ==
    /\ Cardinality(UserCalls) < max
    /\ verb = "callBrowser" =>
            /\ getEnvironment(c) = "client"
            /\ target \in Browsers \cup {""}
            /\ target \in Browsers => Owner(target) = Process(c)
    /\ verb \in {"callClient", "callBrowsers"} =>
            IF getEnvironment(c) = "server" THEN target \in Players ELSE target = ""
    /\ verb \in {"call", "callServer"} => target = ""
    /\ verb = "call" => ~noRet
    /\ IF verb # "call" /\ ~requireNamespace(c)
       THEN /\ last' = [NoStep(verb, c) EXCEPT !.proc = name, !.threw = TRUE,
                                               !.err = NO_NAMESPACE]
            /\ UNCHANGED <<uidNext, rpcPending, net, calls>>
       ELSE \E plan \in {Verb(c, verb, target, name, args,
                               IF noRet THEN Num(1) ELSE Undefined)} :
       LET id == IF plan.remote THEN drawn ELSE 0
           k == Len(calls) + 1
       IN /\ uidNext' = IF plan.remote THEN uidNext + 1 ELSE uidNext
          /\ rpcPending' = PendingAfter(rpcPending, c, plan, id, k)
          /\ net' = NetAfter(net, c, plan, id)
          /\ calls' = Append(calls, CallRecord(c, verb, Callee(c, verb, target, name), name,
                                               args, noRet, timeout, plan, id, <<"user">>))
          /\ last' = IF Local(c, verb)
                      THEN [NoStep(verb, c) EXCEPT !.proc = name, !.h = Listener(c, name),
                                                   !.res = plan.res, !.args = args,
                                                   !.env = getEnvironment(c)]
                      ELSE [NoStep(verb, c) EXCEPT !.id = id]
    /\ UNCHANGED setup
    /\ UNCHANGED <<rpcListeners, rpcIncoming, rpcBrowsers, rpcBrowserProcedures, valid,
                   nfaults, unregistered>>

\* a call whose id no earlier call of the behaviour was given
UserCall(c, verb, target, name, args, noRet, timeout) ==
    UserCallId(c, verb, target, name, args, noRet, timeout, uid, MaxCalls)

\* what the exported trigger functions call, with the payload [name, args]
\* and { noRet: 1 }
Trigger(c, verb, target, name, args) ==
    CASE verb = "triggerServer" ->
            _callServer(c, TriggerName(rpcNamespace[c]), Arr(<<Str(name), args>>), Num(1), "")
      [] verb = "triggerClient" ->
            _callClient(c, target, TriggerName(rpcNamespace[c]), Arr(<<Str(name), args>>),
                        Num(1), "")
      [] verb = "triggerBrowsers" ->
            _callClient(c, target, TriggerBrowsersName(rpcNamespace[c]),
                        Arr(<<Str(name), args>>), Num(1), "")
      [] OTHER ->
            _callBrowser(c, target, TriggerName(rpcNamespace[c]), Arr(<<Str(name), args>>),
                         Num(1), "")

\* the procedure a trigger function calls in the context itself, if it does
LocalName(c, verb) ==
    CASE verb = "triggerServer" /\ getEnvironment(c) = "server" -> TriggerName(rpcNamespace[c])
      [] verb = "triggerClient" /\ getEnvironment(c) = "client" -> TriggerName(rpcNamespace[c])
      [] verb = "triggerBrowsers" /\ getEnvironment(c) = "client" ->
            TriggerBrowsersName(rpcNamespace[c])
      [] OTHER -> ""

\* triggerServer / triggerClient / triggerBrowsers / triggerBrowser: the
\* promise of the call is dropped
UserTrigger(c, verb, target, name, args) ==
    /\ Cardinality(UserCalls) < MaxCalls
    /\ verb = "triggerBrowser" =>
            /\ getEnvironment(c) = "client"
            /\ target \in Browsers \cup {""}
            /\ target \in Browsers => Owner(target) = Process(c)
    /\ verb \in {"triggerClient", "triggerBrowsers"} =>
            IF getEnvironment(c) = "server" THEN target \in Players ELSE target = ""
    /\ verb = "triggerServer" => target = ""
    /\ IF ~requireNamespace(c)
       THEN /\ last' = [NoStep(verb, c) EXCEPT !.proc = name, !.threw = TRUE,
                                               !.err = NO_NAMESPACE]
            /\ UNCHANGED <<uidNext, rpcPending, net, calls>>
       ELSE \E plan \in {Trigger(c, verb, target, name, args)} :
       LET id == IF plan.remote THEN uid ELSE 0
           k == Len(calls) + 1
           local == LocalName(c, verb)
           payload == Arr(<<Str(name), args>>)
           fan == IF local = "" THEN <<>> ELSE Fanout(c, local, payload)
       IN /\ uidNext' = IF plan.remote THEN uid ELSE uidNext + Len(fan)
          /\ rpcPending' = PendingAfter(rpcPending, c, plan, id, k)
          /\ net' = IF plan.remote THEN NetAfter(net, c, plan, id)
                    ELSE SendFan(net, c, fan, payload, getEnvironment(c), uid)
          /\ calls' = Append(calls, CallRecord(c, verb, target, name, args, TRUE, FALSE,
                                               plan, id, <<"user">>))
                      \o FanRecords(c, fan, payload, getEnvironment(c), uid,
                                    <<"none", <<"none">>, 0, FALSE>>)
          /\ last' = IF local # ""
                      THEN [NoStep(verb, c) EXCEPT !.proc = local, !.h = Listener(c, local),
                                                   !.res = plan.res, !.args = payload,
                                                   !.env = getEnvironment(c),
                                                   !.ran = Ran(c, local, payload)]
                      ELSE [NoStep(verb, c) EXCEPT !.id = id]
    /\ UNCHANGED setup
    /\ UNCHANGED <<rpcListeners, rpcIncoming, rpcBrowsers, rpcBrowserProcedures, valid,
                   nfaults, unregistered>>

\* a timer that settles the promise whatever its state
TimerFireOverwriting(k) ==
    /\ k \in DOMAIN calls
    /\ calls[k].timer = "armed"
    /\ calls' = [calls EXCEPT ![k].timer = "fired", ![k].outer = Rejected(TIMEOUT)]
    /\ last' = [NoStep("timer", calls[k].ctx) EXCEPT !.k = k, !.id = calls[k].id]
    /\ UNCHANGED setup
    /\ UNCHANGED <<rpcListeners, rpcPending, rpcIncoming, rpcBrowsers,
                   rpcBrowserProcedures, valid, net, uidNext, nfaults,
                   unregistered>>

\* a timer that calls the race's resolve instead of its reject
TimerFireResolving(k) ==
    /\ k \in DOMAIN calls
    /\ calls[k].timer = "armed"
    /\ calls' = [calls EXCEPT ![k].timer = "fired",
                              ![k].outer = IF @ = Pending THEN Resolved(TIMEOUT) ELSE @]
    /\ last' = [NoStep("timer", calls[k].ctx) EXCEPT !.k = k, !.id = calls[k].id]
    /\ UNCHANGED setup
    /\ UNCHANGED <<rpcListeners, rpcPending, rpcIncoming, rpcBrowsers,
                   rpcBrowserProcedures, valid, net, uidNext, nfaults,
                   unregistered>>

\* util.promiseTimeout: the timer rejects the race with TIMEOUT; a race that
\* is already settled stays as it is
TimerFire(k) ==
    /\ k \in DOMAIN calls
    /\ calls[k].timer = "armed"
    /\ calls' = [calls EXCEPT ![k].timer = "fired",
                              ![k].outer = IF @ = Pending THEN Rejected(TIMEOUT) ELSE @]
    /\ last' = [NoStep("timer", calls[k].ctx) EXCEPT !.k = k, !.id = calls[k].id]
    /\ UNCHANGED setup
    /\ UNCHANGED <<rpcListeners, rpcPending, rpcIncoming, rpcBrowsers,
                   rpcBrowserProcedures, valid, net, uidNext, nfaults,
                   unregistered>>

\* ------------------------------------------------------------ registries
\* register(name, cb); a webview also announces the procedure to its client
register(c, name, cb) ==
    /\ rpcListeners' = [rpcListeners EXCEPT ![c][name] = cb]
    /\ net' = IF getEnvironment(c) = "cef"
              THEN Emit(net, c, Owner(c), <<[ev |-> BROWSER_REGISTER, procedure |-> name]>>)
              ELSE net
    /\ unregistered' = unregistered \ {<<c, name>>}
    /\ last' = [NoStep("register", c) EXCEPT !.proc = name]
    /\ UNCHANGED setup
    /\ UNCHANGED <<rpcPending, rpcIncoming, rpcBrowsers, rpcBrowserProcedures, valid,
                   calls, uidNext, nfaults>>

\* an unregister that leaves the listener in place
unregisterKeeping(c, name) ==
    /\ unregistered' = IF rpcListeners[c][name] \in UserHandlers
                       THEN unregistered \cup {<<c, name>>} ELSE unregistered
    /\ last' = [NoStep("unregister", c) EXCEPT !.proc = name]
    /\ UNCHANGED setup
    /\ UNCHANGED <<rpcListeners, rpcPending, rpcIncoming, rpcBrowsers,
                   rpcBrowserProcedures, valid, net, calls, uidNext, nfaults>>

\* unregister(name): rpcListeners[name] = undefined
unregister(c, name) ==
    /\ rpcListeners' = [rpcListeners EXCEPT ![c][name] = HUndefined]
    /\ unregistered' = IF rpcListeners[c][name] \in UserHandlers
                       THEN unregistered \cup {<<c, name>>} ELSE unregistered
    /\ last' = [NoStep("unregister", c) EXCEPT !.proc = name]
    /\ UNCHANGED setup
    /\ UNCHANGED <<rpcPending, rpcIncoming, rpcBrowsers, rpcBrowserProcedures, valid,
                   net, calls, uidNext, nfaults>>

\* ------------------------------------------------------------------- init
\* util.requestNamespace: false when the context's list already has ns
requestNamespace(c, ns) == ns \notin namespaces[Process(c)]

\* an init that does not ask whether the namespace is in use
InitErrorUnguarded(c, ns) ==
    IF rpcNamespace[c] # "" THEN "Already initialized."
    ELSE IF ns = "" THEN "Must specify a namespace."
    ELSE ""

\* what init(ns) throws in instance c, "" when it throws nothing
InitError(c, ns) ==
    IF rpcNamespace[c] # "" THEN "Already initialized."
    ELSE IF ns = "" THEN "Must specify a namespace."
    ELSE IF ~requestNamespace(c, ns) THEN "Namespace is already in use."
    ELSE ""

\* init(namespace)
init(c, ns) ==
    /\ \E err \in {InitError(c, ns)} :
        /\ last' = [NoStep("init", c) EXCEPT !.proc = ns, !.err = err]
        /\ IF err # ""
           THEN UNCHANGED <<rpcNamespace, namespaces, hooks, rpcListeners, net, unregistered>>
           ELSE /\ namespaces' = [namespaces EXCEPT ![Process(c)] = @ \cup {ns}]
                /\ rpcNamespace' = [rpcNamespace EXCEPT ![c] = ns]
                /\ hooks' = [hooks EXCEPT ![c] = @ \cup {ns}]
                /\ rpcListeners' =
                      [rpcListeners EXCEPT
                          ![c] = [n \in Names |-> IF Builtins(c, ns)[n] # Absent
                                                  THEN Builtins(c, ns)[n] ELSE @[n]]]
                /\ unregistered' =
                      unregistered \ {<<c, n>> : n \in {m \in Names : Builtins(c, ns)[m] # Absent}}
                \* register() in a webview announces the procedure
                /\ net' = IF getEnvironment(c) = "cef"
                          THEN Emit(net, c, Owner(c),
                                    <<[ev |-> BROWSER_REGISTER, procedure |-> TriggerName(ns)]>>)
                          ELSE net
    /\ UNCHANGED <<rpcPending, rpcIncoming, rpcBrowsers, rpcBrowserProcedures, valid, calls,
                   uidNext, nfaults, rpcEvListeners>>

\* addWebView(webView)
addWebView(c, b) ==
    /\ \E err \in {IF ~requireNamespace(c)
                    THEN NO_NAMESPACE
                    ELSE IF getEnvironment(c) # "client"
                    THEN "addWebView can only be used on the client"
                    ELSE ""} :
        /\ last' = [NoStep("addWebView", c) EXCEPT !.proc = b, !.err = err]
        /\ rpcBrowsers' = IF err = "" THEN [rpcBrowsers EXCEPT ![c] = @ \cup {b}]
                          ELSE rpcBrowsers
    /\ UNCHANGED <<rpcListeners, rpcPending, rpcIncoming, rpcBrowserProcedures, valid, net,
                   calls, uidNext, nfaults, unregistered, setup>>

\* ----------------------------------------------------------------- events
\* on(name, cb): listeners.add(cb) on a Set, which keeps insertion order.
\* rpcEvListeners is a plain object: under a name that Object.prototype
\* defines, rpcEvListeners[name] is the inherited function, which has no add,
\* and the call throws a TypeError
on(c, name, cb) ==
    /\ name \in EvNames \cup ProtoNames
    /\ IF name \in EvNames
       THEN /\ rpcEvListeners' =
                  [rpcEvListeners EXCEPT
                      ![c][name] = IF \E i \in DOMAIN @ : @[i] = cb THEN @ ELSE Append(@, cb)]
            /\ last' = [NoStep("on", c) EXCEPT !.proc = name, !.h = cb]
       ELSE /\ UNCHANGED rpcEvListeners
            /\ last' = [NoStep("on", c) EXCEPT !.proc = name, !.h = cb, !.threw = TRUE]
    /\ UNCHANGED <<rpcListeners, rpcPending, rpcIncoming, rpcBrowsers, rpcBrowserProcedures,
                   valid, net, calls, uidNext, nfaults, unregistered, rpcNamespace,
                   namespaces, hooks>>

\* off(name, cb): if (listeners) listeners.delete(cb); the inherited function
\* has no delete either
off(c, name, cb) ==
    /\ name \in EvNames \cup ProtoNames
    /\ IF name \in EvNames
       THEN /\ rpcEvListeners' =
                  [rpcEvListeners EXCEPT ![c][name] = SelectSeq(@, LAMBDA h : h # cb)]
            /\ last' = [NoStep("off", c) EXCEPT !.proc = name, !.h = cb]
       ELSE /\ UNCHANGED rpcEvListeners
            /\ last' = [NoStep("off", c) EXCEPT !.proc = name, !.h = cb, !.threw = TRUE]
    /\ UNCHANGED <<rpcListeners, rpcPending, rpcIncoming, rpcBrowsers, rpcBrowserProcedures,
                   valid, net, calls, uidNext, nfaults, unregistered, rpcNamespace,
                   namespaces, hooks>>

\* trigger(name, args): callEvent(name, args, { environment }); what a handler
\* throws is thrown by trigger
trigger(c, name, args) ==
    /\ last' = [NoStep("trigger", c) EXCEPT !.proc = name, !.args = args,
                                            !.ran = callEvent(c, name).ran,
                                            !.threw = callEvent(c, name).threw]
    /\ UNCHANGED <<rpcListeners, rpcPending, rpcIncoming, rpcBrowsers, rpcBrowserProcedures,
                   valid, net, calls, uidNext, nfaults, unregistered, setup>>

\* ------------------------------------------------------------ processEvent
\* a client that answers every webview's request to one webview
RetOfOneSurface(c, event, sender) ==
    CASE getEnvironment(c) = "server" -> <<"link", <<c, Process(sender)>>>>
      [] getEnvironment(c) = "client" ->
            IF event.env = "server" THEN <<"link", <<c, "server">>>>
            ELSE IF event.env = "cef" THEN <<"webview", "b1">>
            ELSE <<"none">>
      [] OTHER -> <<"link", <<c, Owner(c)>>>>

\* the `player` argument of processEvent: whoever sent the event, only on the
\* server
PlayerOf(c, sender) == IF getEnvironment(c) = "server" THEN Process(sender) ELSE ""

\* the callback `ret` chosen for a request
RetOf(c, event, sender) ==
    CASE getEnvironment(c) = "server" -> <<"link", <<c, Process(sender)>>>>
      [] getEnvironment(c) = "client" ->
            IF event.env = "server" THEN <<"link", <<c, "server">>>>
            ELSE IF event.env = "cef"
            THEN <<"webview", IF sender \in Browsers THEN sender ELSE "">>
            ELSE <<"none">>
      [] OTHER -> <<"link", <<c, Owner(c)>>>>

\* a response that reports every result as a success
ResponseSucceeding(c, res, id, split) ==
    sendEvent(Envelope("RESPONSE_SUCCESS", id, "", getEnvironment(c), "", Undefined),
              res[2], split)

\* a response that is sent twice
ResponseTwice(c, res, id, split) ==
    ResponseSucceeding(c, res, id, split) \o ResponseSucceeding(c, res, id, split)

\* the response partials for a settled result
Response(c, res, id, split) ==
    sendEvent(Envelope(IF res[1] = "resolved" THEN "RESPONSE_SUCCESS" ELSE "RESPONSE_ERROR",
                       id, "", getEnvironment(c), "", Undefined),
              res[2], split)

\* calling `ret` with each partial
Return(n, c, ret, msgs) ==
    CASE ret[1] = "link" -> Emit(n, c, ret[2][2], msgs)
      [] ret[1] = "webview" /\ ret[2] \in Browsers ->
            IF valid[ret[2]] THEN Emit(n, c, ret[2], msgs) ELSE n
      [] OTHER -> n

\* the partial is counted and its args replace those received before
ReceivedOverwriting(c, event) ==
    LET old == IF event.id \in DOMAIN rpcIncoming[c] THEN rpcIncoming[c][event.id]
               ELSE [recv |-> 0, total |-> event.total, hasArgs |-> FALSE, args |-> <<>>]
    IN [recv |-> old.recv + 1, total |-> old.total,
        hasArgs |-> old.hasArgs \/ event.hasArgs,
        args |-> IF event.hasArgs THEN event.args ELSE old.args]

\* one accumulator for all ids: the partial is added to an entry the table
\* already holds, whatever its id
ReceivedShared(c, event) ==
    LET old == IF DOMAIN rpcIncoming[c] # {}
               THEN rpcIncoming[c][CHOOSE i \in DOMAIN rpcIncoming[c] : TRUE]
               ELSE [recv |-> 0, total |-> event.total, hasArgs |-> FALSE, args |-> <<>>]
    IN [recv |-> old.recv + 1, total |-> old.total,
        hasArgs |-> old.hasArgs \/ event.hasArgs,
        args |-> IF event.hasArgs THEN old.args \o event.args ELSE old.args]

\* the partial is counted and its args appended in arrival order
Received(c, event) ==
    LET old == IF event.id \in DOMAIN rpcIncoming[c] THEN rpcIncoming[c][event.id]
               ELSE [recv |-> 0, total |-> event.total, hasArgs |-> FALSE, args |-> <<>>]
    IN [recv |-> old.recv + 1, total |-> old.total,
        hasArgs |-> old.hasArgs \/ event.hasArgs,
        args |-> IF event.hasArgs THEN old.args \o event.args ELSE old.args]

\* an info.environment that names the sender of the request
InfoEnvironmentOfSender(event) == event.env

\* info.environment: event.fenv || event.env
InfoEnvironment(event) == IF event.fenv # "" THEN event.fenv ELSE event.env

\* a complete request: call the procedure and, unless noRet, answer along ret
Request(l, event, args, popped, step) ==
    \E plan \in {callProcedure(l[2], event.name, args, InfoEnvironment(event))} :
    LET c == l[2]
        ret == RetOf(c, event, l[1])
        split == getEnvironment(c) # "cef"
        respond == ~Truthy(event.noRet)
        id == IF plan.remote THEN uid ELSE 0
        k == Len(calls) + 1
        reply == <<IF respond THEN "reply" ELSE "none", ret, event.id, split>>
        deferred == ~plan.remote /\ plan.res = Pending
        answer == IF respond /\ ~plan.remote /\ ~deferred
                  THEN Response(c, plan.res, event.id, split) ELSE <<>>
        infoEnv == InfoEnvironment(event)
        fan == Fanout(c, event.name, args)
    IN IF ret[1] = "none"
       THEN /\ net' = popped
            /\ last' = step
            /\ UNCHANGED <<rpcPending, calls, uidNext>>
       ELSE /\ uidNext' = IF plan.remote THEN uid ELSE uidNext + Len(fan)
            /\ rpcPending' = PendingAfter(rpcPending, c, plan, id, k)
            /\ calls' = IF plan.remote
                        THEN Append(calls, CallRecord(c, "relay", plan.link[2], plan.name,
                                                      plan.args, Truthy(plan.noRet), FALSE,
                                                      plan, id, reply))
                        ELSE IF deferred
                        THEN Append(calls, CallRecord(c, "handler", c, event.name, args,
                                                      ~respond, FALSE, plan, 0, reply))
                        ELSE calls \o FanRecords(c, fan, args, infoEnv, uid,
                                                 <<"none", ret, event.id, split>>)
            /\ net' = IF plan.remote THEN NetAfter(popped, c, plan, id)
                      ELSE Return(SendFan(popped, c, fan, args, infoEnv, uid),
                                  c, ret, answer)
            /\ last' = [step EXCEPT !.proc = event.name, !.h = Listener(c, event.name),
                                    !.res = plan.res, !.sent = Len(answer), !.args = args,
                                    !.env = infoEnv, !.ran = Ran(c, event.name, args),
                                    !.player = PlayerOf(c, l[1])]

\* the promise a handler returned settles: promise.then(...).catch(...)
\* .finally(() => sendEvent(...)) sends the response, if one is wanted
settle(k, o) ==
    /\ k \in DOMAIN calls
    /\ ~calls[k].remote
    /\ calls[k].inner = Pending
    /\ LET c == calls[k].ctx
           reply == calls[k].reply
           answer == IF reply[1] = "reply" THEN Response(c, o, reply[3], reply[4])
                     ELSE <<>>
       IN /\ calls' = [calls EXCEPT ![k].inner = o,
                                    ![k].outer = IF @ = Pending THEN o ELSE @]
          /\ net' = IF reply[1] = "reply" THEN Return(net, c, reply[2], answer) ELSE net
          /\ last' = [NoStep("settle", c) EXCEPT !.k = k, !.res = o, !.sent = Len(answer)]
    /\ UNCHANGED setup
    /\ UNCHANGED <<rpcListeners, rpcPending, rpcIncoming, rpcBrowsers, rpcBrowserProcedures,
                   valid, uidNext, nfaults, unregistered>>

\* no check of the responding player
AnyPlayer(c, info, player) == FALSE

\* if (environment === 'server' && info.player !== player) return
WrongPlayer(c, info, player) == getEnvironment(c) = "server" /\ info.player # player

\* a complete response: resolve the pending call and forget it
Answer(l, event, args, popped, step) ==
    LET c == l[2]
        id == event.id
        has == id \in DOMAIN rpcPending[c]
    IN IF getEnvironment(c) = "server" /\ ~has
       THEN \* info.player of undefined: the dispatcher throws
            /\ net' = popped
            /\ last' = [step EXCEPT !.threw = TRUE]
            /\ UNCHANGED <<rpcPending, calls, uidNext>>
       ELSE IF ~has \/ WrongPlayer(c, rpcPending[c][id], Process(l[1]))
       THEN /\ net' = popped
            /\ last' = step
            /\ UNCHANGED <<rpcPending, calls, uidNext>>
       ELSE LET k == rpcPending[c][id].resolve
                res == IF event.type = "RESPONSE_SUCCESS" THEN Resolved(args)
                       ELSE Rejected(args)
                reply == calls[k].reply
                relayed == IF reply[1] = "reply" THEN Response(c, res, reply[3], reply[4])
                           ELSE <<>>
            IN /\ calls' = [calls EXCEPT ![k].inner = IF @ = Pending THEN res ELSE @,
                                         ![k].outer = IF @ = Pending THEN res ELSE @]
               /\ rpcPending' = [rpcPending EXCEPT
                                    ![c] = [i \in DOMAIN @ \ {id} |-> @[i]]]
               /\ net' = IF reply[1] = "reply" THEN Return(popped, c, reply[2], relayed)
                         ELSE popped
               /\ last' = [step EXCEPT !.k = k, !.sent = Len(relayed)]
               /\ UNCHANGED uidNext

\* processEvent(event, player, webView) for the next event of a link
processEvent(l) ==
    /\ net[l] # <<>>
    /\ Head(net[l]).ev = PROCESS_EVENT
    /\ l[2] \in Browsers => valid[l[2]]
    /\ \E incoming \in {Received(l[2], Head(net[l]))} :
       \E args \in {IF incoming.hasArgs THEN parseData(incoming.args) ELSE Undefined} :
       LET c == l[2]
           event == Head(net[l])
           popped == [net EXCEPT ![l] = Tail(@)]
           step == [NoStep("deliver", c) EXCEPT !.from = l[1], !.id = event.id,
                                                !.type = event.type]
       IN IF l[1] \in Browsers /\ l[1] \notin rpcBrowsers[c]
          THEN \* no handler attached to this webview
               /\ net' = popped
               /\ last' = step
               /\ UNCHANGED <<rpcIncoming, rpcPending, calls, uidNext>>
          ELSE /\ rpcIncoming' = [rpcIncoming EXCEPT ![c] = (event.id :> incoming) @@ @]
               /\ IF incoming.recv < incoming.total
                  THEN /\ net' = popped
                       /\ last' = step
                       /\ UNCHANGED <<rpcPending, calls, uidNext>>
                  ELSE IF event.type = "REQUEST"
                  THEN Request(l, event, args, popped, step)
                  ELSE Answer(l, event, args, popped, step)
    /\ UNCHANGED setup
    /\ UNCHANGED <<rpcListeners, rpcBrowsers, rpcBrowserProcedures, valid, nfaults,
                   unregistered>>

\* a handler that keeps the first webview to claim a name
browserRegisterFirst(l) ==
    /\ net[l] # <<>>
    /\ Head(net[l]).ev = BROWSER_REGISTER
    /\ net' = [net EXCEPT ![l] = Tail(@)]
    /\ rpcBrowserProcedures' =
            IF l[1] \in rpcBrowsers[l[2]]
            THEN [rpcBrowserProcedures EXCEPT
                    ![l[2]] = @ @@ (Head(net[l]).procedure :> l[1])]
            ELSE rpcBrowserProcedures
    /\ last' = [NoStep("claim", l[2]) EXCEPT !.from = l[1],
                                              !.proc = Head(net[l]).procedure]
    /\ UNCHANGED setup
    /\ UNCHANGED <<rpcListeners, rpcPending, rpcIncoming, rpcBrowsers, valid, calls,
                   uidNext, nfaults, unregistered>>

\* the BROWSER_REGISTER handler addWebView attaches to a webview
browserRegister(l) ==
    /\ net[l] # <<>>
    /\ Head(net[l]).ev = BROWSER_REGISTER
    /\ net' = [net EXCEPT ![l] = Tail(@)]
    /\ rpcBrowserProcedures' =
            IF l[1] \in rpcBrowsers[l[2]]
            THEN [rpcBrowserProcedures EXCEPT
                    ![l[2]] = (Head(net[l]).procedure :> l[1]) @@ @]
            ELSE rpcBrowserProcedures
    /\ last' = [NoStep("claim", l[2]) EXCEPT !.from = l[1],
                                              !.proc = Head(net[l]).procedure]
    /\ UNCHANGED setup
    /\ UNCHANGED <<rpcListeners, rpcPending, rpcIncoming, rpcBrowsers, valid, calls,
                   uidNext, nfaults, unregistered>>

\* the webview is destroyed: webView.valid is false from now on, and nothing
\* runs in its page any more
destroy(b) ==
    /\ valid[b]
    /\ valid' = [valid EXCEPT ![b] = FALSE]
    /\ last' = NoStep("destroy", b)
    /\ UNCHANGED <<rpcListeners, rpcPending, rpcIncoming, rpcBrowsers, rpcBrowserProcedures,
                   net, calls, uidNext, nfaults, unregistered, setup>>

\* ------------------------------------------- the build without partials
\* src/src/index.ts sends an event as one string, util.stringifyData(event),
\* and calls, routes and registers as the build above does.  JSON.stringify
\* leaves out a key whose value is undefined: the string is modelled by the
\* fields that are always there, the payload key it holds (args, res or err,
\* or none) and the JSON of the payload.
Stringified(kind, id, name, env, fenv, noRet, key, v) ==
    [ev |-> PROCESS_EVENT, kind |-> kind, id |-> id, name |-> name, env |-> env,
     fenv |-> fenv, noRet |-> noRet,
     keys |-> IF v = Undefined THEN {} ELSE {key},
     val |-> IF v = Undefined THEN <<>> ELSE stringifyData(v)]

\* data[key] of the event util.parseData(rawData) returns
Field(data, key) == IF key \in data.keys THEN parseData(data.val) ELSE Undefined

\* promise.then(res => ret(stringifyData({ ...part, res })))
\*        .catch(err => ret(stringifyData({ ...part, err: err !== null ? err : null })))
ResponseUnchunked(c, res, id) ==
    <<IF res[1] = "resolved"
      THEN Stringified("ret", id, "", getEnvironment(c), "", Undefined, "res", res[2])
      ELSE Stringified("ret", id, "", getEnvironment(c), "", Undefined, "err",
                       IF res[2] # Null THEN res[2] ELSE Null)>>

\* data.hasOwnProperty('err') ? Promise.reject(data.err) : data.res
SettledUnchunked(data) ==
    IF "err" \in data.keys THEN Rejected(Field(data, "err"))
    ELSE Resolved(Field(data, "res"))

\* the exported call verbs: the event is stringified whole and emitted
UserCallUnchunked(c, verb, target, name, args) ==
    /\ Cardinality(UserCalls) < MaxCalls
    /\ rpcNamespace[c] # ""
    /\ verb = "callBrowser" =>
            /\ getEnvironment(c) = "client"
            /\ target \in Browsers \cup {""}
            /\ target \in Browsers => Owner(target) = Process(c)
    /\ verb \in {"callClient", "callBrowsers"} =>
            IF getEnvironment(c) = "server" THEN target \in Players ELSE target = ""
    /\ verb = "callServer" => target = ""
    /\ \E plan \in {Verb(c, verb, target, name, args, Undefined)} :
       LET id == IF plan.remote THEN uid ELSE 0
           k == Len(calls) + 1
       IN /\ uidNext' = IF plan.remote THEN uid ELSE uidNext
          /\ rpcPending' = PendingAfter(rpcPending, c, plan, id, k)
          /\ net' = IF plan.remote
                    THEN Emit(net, c, plan.link[2],
                              <<Stringified("req", id, plan.name, getEnvironment(c),
                                            plan.fenv, plan.noRet, "args", plan.args)>>)
                    ELSE net
          /\ calls' = Append(calls, CallRecord(c, verb, Callee(c, verb, target, name), name,
                                               args, FALSE, FALSE, plan, id, <<"user">>))
          /\ last' = IF Local(c, verb)
                      THEN [NoStep(verb, c) EXCEPT !.proc = name, !.h = Listener(c, name),
                                                   !.res = plan.res, !.args = args,
                                                   !.env = getEnvironment(c)]
                      ELSE [NoStep(verb, c) EXCEPT !.id = id]
    /\ UNCHANGED setup
    /\ UNCHANGED <<rpcListeners, rpcIncoming, rpcBrowsers, rpcBrowserProcedures, valid,
                   nfaults, unregistered>>

\* if (data.req): call the procedure and, unless noRet, answer along ret
RequestUnchunked(l, data, popped, step) ==
    \E plan \in {callProcedure(l[2], data.name, Field(data, "args"),
                                InfoEnvironment(data))} :
    LET c == l[2]
        ret == RetOf(c, data, l[1])
        respond == ~Truthy(data.noRet)
        id == IF plan.remote THEN uid ELSE 0
        k == Len(calls) + 1
        reply == <<IF respond THEN "reply" ELSE "none", ret, data.id, FALSE>>
        answer == IF respond /\ ~plan.remote
                  THEN ResponseUnchunked(c, plan.res, data.id) ELSE <<>>
    IN IF ret[1] = "none"
       THEN /\ net' = popped
            /\ last' = step
            /\ UNCHANGED <<rpcPending, calls, uidNext>>
       ELSE /\ uidNext' = IF plan.remote THEN uid ELSE uidNext
            /\ rpcPending' = PendingAfter(rpcPending, c, plan, id, k)
            /\ calls' = IF plan.remote
                        THEN Append(calls, CallRecord(c, "relay", plan.link[2], plan.name,
                                                      plan.args, Truthy(plan.noRet), FALSE,
                                                      plan, id, reply))
                        ELSE calls
            /\ net' = IF plan.remote
                      THEN Emit(popped, c, plan.link[2],
                                <<Stringified("req", id, plan.name, getEnvironment(c),
                                              plan.fenv, plan.noRet, "args", plan.args)>>)
                      ELSE Return(popped, c, ret, answer)
            /\ last' = [step EXCEPT !.proc = data.name, !.h = Listener(c, data.name),
                                    !.res = plan.res, !.sent = Len(answer),
                                    !.args = Field(data, "args"),
                                    !.env = InfoEnvironment(data)]

\* else if (data.ret): settle the pending call and forget it
AnswerUnchunked(l, data, popped, step) ==
    LET c == l[2]
        id == data.id
        has == id \in DOMAIN rpcPending[c]
    IN IF getEnvironment(c) = "server" /\ ~has
       THEN \* info.player of undefined: the dispatcher throws
            /\ net' = popped
            /\ last' = [step EXCEPT !.threw = TRUE]
            /\ UNCHANGED <<rpcPending, calls, uidNext>>
       ELSE IF ~has \/ WrongPlayer(c, rpcPending[c][id], Process(l[1]))
       THEN /\ net' = popped
            /\ last' = step
            /\ UNCHANGED <<rpcPending, calls, uidNext>>
       ELSE LET k == rpcPending[c][id].resolve
                res == SettledUnchunked(data)
                reply == calls[k].reply
                relayed == IF reply[1] = "reply" THEN ResponseUnchunked(c, res, reply[3])
                           ELSE <<>>
            IN /\ calls' = [calls EXCEPT ![k].inner = IF @ = Pending THEN res ELSE @,
                                         ![k].outer = IF @ = Pending THEN res ELSE @]
               /\ rpcPending' = [rpcPending EXCEPT
                                    ![c] = [i \in DOMAIN @ \ {id} |-> @[i]]]
               /\ net' = IF reply[1] = "reply" THEN Return(popped, c, reply[2], relayed)
                         ELSE popped
               /\ last' = [step EXCEPT !.k = k, !.sent = Len(relayed)]
               /\ UNCHANGED uidNext

\* processEvent(rawData, player, webView) of src/src/index.ts
processEventUnchunked(l) ==
    /\ net[l] # <<>>
    /\ Head(net[l]).ev = PROCESS_EVENT
    /\ l[2] \in Browsers => valid[l[2]]
    /\ LET c == l[2]
           data == Head(net[l])
           popped == [net EXCEPT ![l] = Tail(@)]
           step == [NoStep("deliver", c) EXCEPT !.from = l[1], !.id = data.id,
                                                !.type = data.kind]
       IN IF l[1] \in Browsers /\ l[1] \notin rpcBrowsers[c]
          THEN /\ net' = popped
               /\ last' = step
               /\ UNCHANGED <<rpcPending, calls, uidNext>>
          ELSE IF data.kind = "req"
          THEN RequestUnchunked(l, data, popped, step)
          ELSE AnswerUnchunked(l, data, popped, step)
    /\ UNCHANGED setup
    /\ UNCHANGED <<rpcListeners, rpcIncoming, rpcBrowsers, rpcBrowserProcedures, valid,
                   nfaults, unregistered>>

\* ------------------------------------------------------- transport faults
\* the link delivers the next event twice
Duplicate(l) ==
    /\ nfaults < MaxFaults
    /\ net[l] # <<>>
    /\ Head(net[l]).ev = PROCESS_EVENT
    /\ net' = [net EXCEPT ![l] = <<Head(@)>> \o @]
    /\ nfaults' = nfaults + 1
    /\ last' = NoStep("duplicate", l[2])
    /\ UNCHANGED setup
    /\ UNCHANGED <<rpcListeners, rpcPending, rpcIncoming, rpcBrowsers,
                   rpcBrowserProcedures, valid, calls, uidNext, unregistered>>

\* a player's client emits a response the server never asked it for
Forge(p, id, type) ==
    /\ nfaults < MaxFaults
    /\ id \in DOMAIN rpcPending["server"]
    /\ net' = [net EXCEPT ![<<p, "server">>] =
                  @ \o sendEvent(Envelope(type, id, "", "client", "", Undefined),
                                 Num(666), TRUE)]
    /\ nfaults' = nfaults + 1
    /\ last' = [NoStep("forge", p) EXCEPT !.id = id]
    /\ UNCHANGED setup
    /\ UNCHANGED <<rpcListeners, rpcPending, rpcIncoming, rpcBrowsers,
                   rpcBrowserProcedures, valid, calls, uidNext, unregistered>>

\* the sender of link l emits a response envelope under an id its receiver
\* awaits: the receiver's hook for the link hands it to processEvent
ForgeOn(l, id, type) ==
    /\ nfaults < MaxFaults
    /\ id \in DOMAIN rpcPending[l[2]]
    /\ net' = [net EXCEPT ![l] =
                  @ \o sendEvent(Envelope(type, id, "", getEnvironment(l[1]), "", Undefined),
                                 Num(666), getEnvironment(l[1]) # "cef")]
    /\ nfaults' = nfaults + 1
    /\ last' = [NoStep("forge", l[1]) EXCEPT !.id = id]
    /\ UNCHANGED setup
    /\ UNCHANGED <<rpcListeners, rpcPending, rpcIncoming, rpcBrowsers,
                   rpcBrowserProcedures, valid, calls, uidNext, unregistered>>

\* ----------------------------------------------------------- specification
Verbs == {"call", "callServer", "callClient", "callBrowsers", "callBrowser"}
Targets == {"", "p1", "b1"}
Callers == {"server", "p1", "b1"}
CallNames == {"f"}
NoNames == {"g", "toString"}
CallArgs == {Undefined}
RegCtx == {"server"}
RegNames == {"f", "g"}

Calling ==
    \E c \in Callers, verb \in Verbs, target \in Targets, name \in CallNames,
       args \in CallArgs, noRet \in BOOLEAN, timeout \in BOOLEAN :
        UserCall(c, verb, target, name, args, noRet, timeout)
Timing == \E k \in DOMAIN calls : TimerFire(k)
Delivering == \E l \in Links : processEvent(l)
Duplicating == \E l \in Links : Duplicate(l)
Forgers == {"p2"}
Forging ==
    \E p \in Forgers, id \in 1..uidNext, type \in {"RESPONSE_SUCCESS", "RESPONSE_ERROR"} :
        Forge(p, id, type)

\* alt:V delivers every event once and in order
Next == Calling \/ Timing \/ Delivering

Spec == InitRegistered /\ [][Next]_vars

\* events keep being processed while some are in flight
Fairness == WF_vars(Delivering)

\* the calls of one context to a procedure of another, expecting a response
\* and with no timeout
CallingRemote ==
    \E c \in Callers, verb \in Verbs \ {"call"}, target \in Targets,
       args \in {Undefined, Num(7), Num(12345)} :
        UserCall(c, verb, target, "f", args, FALSE, FALSE)

NextLive == CallingRemote \/ Delivering

SpecLive == InitRegistered /\ [][NextLive]_vars /\ Fairness

\* register and unregister at any time, from a start with nothing registered;
\* the calls expect a response and have no timeout
CallingAny ==
    \E c \in {"server", "p1"}, verb \in {"call", "callServer"}, name \in RegNames :
        UserCall(c, verb, "", name, Undefined, FALSE, FALSE)
Registering == \E c \in RegCtx, name \in RegNames, cb \in UserHandlers : register(c, name, cb)
Unregistering == \E c \in RegCtx, name \in RegNames : unregister(c, name)

NextReg == CallingAny \/ Registering \/ Unregistering \/ Delivering

SpecReg == Init /\ [][NextReg]_vars

\* calls, expecting a response, to names registered nowhere
CallingUnregistered ==
    \E c \in Callers, verb \in Verbs, target \in Targets, name \in NoNames,
       args \in {Undefined, Num(7), Num(12345)} :
        UserCall(c, verb, target, name, args, FALSE, FALSE)

NextNames == CallingUnregistered \/ Delivering

SpecNames == InitRegistered /\ [][NextNames]_vars /\ Fairness

\* a transport that may deliver an event twice, and clients that may send the
\* server responses it did not ask them for; the calls expect a response
CallingExpecting ==
    \E c \in {"server", "p1"}, verb \in {"callServer", "callClient", "callBrowser"},
       target \in Targets, timeout \in BOOLEAN :
        UserCall(c, verb, target, "f", Undefined, FALSE, timeout)

NextFaulty == CallingExpecting \/ Timing \/ Delivering \/ Duplicating \/ Forging

SpecFaulty == InitRegistered /\ [][NextFaulty]_vars

\* a second instance in client p1: it calls init with any namespace, adds the
\* webviews, and calls; the instances of the webviews and of the server call
\* too, and a webview registers a procedure
Initialising == \E c \in Seconds, ns \in Namespaces \cup {""} : init(c, ns)
Attaching == \E c \in Seconds, b \in {"b1"} : addWebView(c, b)
CallingIn ==
    \E c \in {"q1", "b1", "server"}, verb \in {"callServer", "callClient"},
       target \in Targets :
        UserCall(c, verb, target, "f", Undefined, FALSE, FALSE)
Announcing ==
    \E c \in {"b1"} :
        /\ rpcListeners[c]["g"] = Absent
        /\ register(c, "g", Ret(Num(42)))
Claiming == \E l \in Links : browserRegister(l)

NextNs == Initialising \/ Attaching \/ CallingIn \/ Announcing \/ Claiming \/ Delivering

SpecNs == InitRegistered /\ [][NextNs]_vars

\* webview b1 of client p1 has registered "f"; webview b2 registers it too,
\* each announcement is processed by the client some time later, b2 may be
\* destroyed, and the client, a webview and the server call callBrowsers
MaxQueue == 1
RegisteringSurface ==
    \E c \in {"b2"} :
        /\ valid[c]
        /\ Len(net[<<c, Owner(c)>>]) < MaxQueue
        /\ register(c, "f", Ret(Returns(c)))
Destroying == \E b \in {"b2"} : destroy(b)
CallingBrowsers ==
    \E c \in Callers, target \in Targets, name \in RegNames :
        UserCall(c, "callBrowsers", target, name, Undefined, FALSE, FALSE)

NextSurfaces ==
    \/ RegisteringSurface \/ Destroying \/ CallingBrowsers
    \/ Claiming \/ Delivering

SpecSurfaces == InitRegistered /\ [][NextSurfaces]_vars

\* calls that pass a JSON value as arguments, over the links that split the
\* payload and over the webview links, which do not
ArgValues ==
    {Undefined, Null, Num(12345), Str("x"), Arr(<<Num(1), Str("x"), Null>>), Seps(1)}
CallingWith ==
    \E c \in Callers, verb \in {"callServer", "callClient"}, target \in Targets,
       args \in ArgValues :
        UserCall(c, verb, target, "f", args, FALSE, FALSE)

NextArgs == CallingWith \/ Delivering

SpecArgs == InitRegistered /\ [][NextArgs]_vars

\* util.uid draws each half of an id at random, from 46656 values, and the
\* call functions use what it returns as it is; the model draws from two
\* values.  The server and client p1 call each other, two calls in a behaviour
IdSpace == 1..2
MaxPending == 2
CallingDrawn ==
    \E c \in {"server", "p1"}, verb \in {"callServer", "callClient"}, target \in Targets,
       name \in RegNames, drawn \in IdSpace :
        UserCallId(c, verb, target, name, Undefined, FALSE, FALSE, drawn, MaxPending)

NextDrawn == CallingDrawn \/ Delivering

SpecDrawn == InitRegistered /\ [][NextDrawn]_vars

\* event handlers are added and removed, and events are triggered locally
EvCtx == {"server", "p1"}
Subscribing == \E c \in EvCtx, name \in EvNames, cb \in EvHandlers : on(c, name, cb)
Unsubscribing == \E c \in EvCtx, name \in EvNames, cb \in EvHandlers : off(c, name, cb)
Triggering ==
    \E c \in EvCtx, name \in EvNames, args \in {Undefined, Num(7)} : trigger(c, name, args)

NextEvents == Subscribing \/ Unsubscribing \/ Triggering

SpecEvents == Init /\ [][NextEvents]_vars

\* procedures that fail: "f" throws, or returns a promise rejected with, each
\* of these reasons; in the last scenario it returns a value
Reasons == {Undefined, Null, Str("boom"), Num(7), Arr(<<Num(1), Null>>)}
FailingHandlers == {Throw(r) : r \in Reasons} \cup {Ret(Num(42))}
InitFailing ==
    \E h \in FailingHandlers :
        Started([c \in Ctx |-> IF c \in Registered
                               THEN [InitListeners(c) EXCEPT !["f"] = h]
                               ELSE StartListeners(c)],
                [NoClaims EXCEPT !["p1"] = ("f" :> "b1") @@ (TriggerName("a") :> "b1")])

CallingUnchunked ==
    \E c \in Callers, verb \in Verbs \ {"call"}, target \in Targets :
        UserCallUnchunked(c, verb, target, "f", Undefined)
DeliveringUnchunked == \E l \in Links : processEventUnchunked(l)

NextUnchunked == CallingUnchunked \/ DeliveringUnchunked

SpecUnchunked == InitFailing /\ [][NextUnchunked]_vars

\* the same procedures in the build that sends partials
SpecFailing == InitFailing /\ [][Next]_vars

\* the calls between server and webview, which the client relays: to a
\* procedure that returns or fails ("f") and to one nobody has ("g")
CallingHop ==
    \E c \in {"server", "b1"}, name \in {"f", "g"} :
        UserCall(c, IF c = "server" THEN "callBrowsers" ELSE "callServer",
                 IF c = "server" THEN "p1" ELSE "", name, Undefined, FALSE, FALSE)

NextHop == CallingHop \/ Delivering

SpecHop == InitFailing /\ [][NextHop]_vars /\ Fairness

\* calls and triggers from every environment to every other, direct and
\* relayed by the client, while webviews subscribe to the event
TriggerVerbs == {"triggerServer", "triggerClient", "triggerBrowsers", "triggerBrowser"}
CallingAcross ==
    \E c \in Callers, verb \in Verbs \ {"call"}, target \in Targets :
        UserCall(c, verb, target, "f", Undefined, FALSE, FALSE)
TriggeringAcross ==
    \E c \in Callers, verb \in TriggerVerbs, target \in Targets :
        UserTrigger(c, verb, target, "e", Num(7))
SubscribingSurface == \E c \in {"b1"} : on(c, "e", EvReturn(1))

NextOrigin == CallingAcross \/ TriggeringAcross \/ SubscribingSurface \/ Delivering

SpecOrigin == InitRegistered /\ [][NextOrigin]_vars

\* calls from the server, from both players' clients and from both webviews
\* of client p1, to every environment, of a procedure the callee has and of
\* one it does not have; webview b2 may be destroyed at any time
Senders == {"server", "p1", "p2", "b1", "b2"}
CallingBack ==
    \E c \in Senders, verb \in Verbs \ {"call"}, target \in Targets, name \in RegNames :
        UserCall(c, verb, target, name, Undefined, FALSE, FALSE)

NextBack == CallingBack \/ Destroying \/ Delivering

SpecBack == InitRegistered /\ [][NextBack]_vars

\* calls with arguments of one and of several partials over links that
\* repeat events
CallingGarbled ==
    \E c \in {"p1", "server"}, verb \in {"callServer", "callClient"}, target \in Targets,
       args \in {Str("x"), Num(12345), Arr(<<Num(1), Str("x"), Null>>)} :
        UserCall(c, verb, target, "f", args, FALSE, FALSE)

NextGarbled == CallingGarbled \/ Delivering \/ Duplicating

SpecGarbled == InitRegistered /\ [][NextGarbled]_vars

\* procedures that return a promise: "f" in the server, in client p1 and in
\* webview b1 returns one that settles later, resolved or rejected
InitAsync ==
    Started([c \in Ctx |-> IF c \in Registered
                           THEN [InitListeners(c) EXCEPT !["f"] = Later]
                           ELSE StartListeners(c)],
            [NoClaims EXCEPT !["p1"] = ("f" :> "b1") @@ (TriggerName("a") :> "b1")])
Outcomes == {Resolved(Num(12345)), Resolved(Undefined), Rejected(Str("boom"))}
Settling == \E k \in DOMAIN calls, o \in Outcomes : settle(k, o)
CallingAsync ==
    \E c \in Callers, verb \in Verbs, target \in Targets :
        UserCall(c, verb, target, "f", Undefined, FALSE, FALSE)

NextAsync == CallingAsync \/ Settling \/ Delivering

SpecAsync == InitAsync /\ [][NextAsync]_vars

\* triggerBrowsers from the server, a client and a webview, while webviews
\* subscribe to the event and one of them is destroyed
TriggeringBrowsers ==
    \E c \in Callers, target \in Targets : UserTrigger(c, "triggerBrowsers", target, "e", Num(7))
SubscribingSurfaces == \E c \in Browsers : on(c, "e", EvReturn(1))

NextTrigger == TriggeringBrowsers \/ SubscribingSurfaces \/ Destroying \/ Delivering

SpecTrigger == InitRegistered /\ [][NextTrigger]_vars /\ Fairness

\* client p1 calls and triggers in a webview it names: one of its two
\* webviews, either of which may have been destroyed, or none
DestroyingAny == \E b \in Browsers : destroy(b)
CallingSurface ==
    \E target \in Browsers \cup {""}, noRet \in BOOLEAN, timeout \in BOOLEAN :
        UserCall("p1", "callBrowser", target, "f", Undefined, noRet, timeout)
TriggeringSurface ==
    \E target \in Browsers \cup {""} : UserTrigger("p1", "triggerBrowser", target, "e", Num(7))

NextInvalid ==
    \/ CallingSurface \/ TriggeringSurface \/ DestroyingAny
    \/ SubscribingSurfaces \/ Timing \/ Delivering

SpecInvalid == InitRegistered /\ [][NextInvalid]_vars

\* local calls: "f" returns a value, throws, or returns a promise that settles
\* later; "g" is not registered.  The server, client p1 and webview b1 call
\* call(name), the server calls callServer and the client callClient, with and
\* without a timeout
LocalHandlers == {Ret(Num(7)), Throw(Str("boom")), Later}
InitLocal ==
    \E h \in LocalHandlers :
        Started([c \in Ctx |-> IF c \in Registered
                               THEN [InitListeners(c) EXCEPT !["f"] = h]
                               ELSE StartListeners(c)],
                [NoClaims EXCEPT !["p1"] = ("f" :> "b1") @@ (TriggerName("a") :> "b1")])
CallingLocal ==
    \E c \in Callers, verb \in {"call", "callServer", "callClient"}, name \in RegNames,
       timeout \in BOOLEAN :
        /\ Local(c, verb)
        /\ UserCall(c, verb, "", name, Undefined, FALSE, timeout)

NextLocal == CallingLocal \/ Settling \/ Timing

SpecLocal == InitLocal /\ [][NextLocal]_vars

\* several calls outstanding at once: client p1 calls the server and its
\* webview b1; every "f" returns a promise, and the promises settle in any
\* order, so the responses come back in any order
CallingSeveral ==
    \E verb \in {"callServer", "callBrowser"}, target \in {"", "b1"} :
        UserCallId("p1", verb, target, "f", Undefined, FALSE, FALSE, uid, MaxPending)

NextSeveral == CallingSeveral \/ Settling \/ Delivering

SpecSeveral == InitAsync /\ [][NextSeveral]_vars

\* the clients of both players call the server with arguments of several
\* partials; the server receives the partials of the two requests in any
\* interleaving that keeps the order of each
LongArgs == {Num(12345), Arr(<<Num(1), Str("x"), Null>>)}
CallingLong ==
    \E c \in Players, args \in LongArgs :
        UserCallId(c, "callServer", "", "f", args, FALSE, FALSE, uid, MaxPending)

NextInterleaved == CallingLong \/ Delivering

SpecInterleaved == InitRegistered /\ [][NextInterleaved]_vars

\* handlers are added and removed under an event name of the user's and
\* under a name that Object.prototype defines
OnNames == EvNames \cup ProtoNames
SubscribingAny == \E c \in EvCtx, name \in OnNames, cb \in EvHandlers : on(c, name, cb)
UnsubscribingAny == \E c \in EvCtx, name \in OnNames, cb \in EvHandlers : off(c, name, cb)

NextOnOff == SubscribingAny \/ UnsubscribingAny

SpecOnOff == Init /\ [][NextOnOff]_vars

\* the instances of one client, the second of them before and after its init,
\* calling every remote verb and every trigger verb
RemoteVerbs == {"callServer", "callClient", "callBrowsers", "callBrowser"}
CallingEarly ==
    \E c \in Seconds \cup {"p1"}, verb \in RemoteVerbs, target \in {"", "b1"} :
        UserCall(c, verb, target, "f", Undefined, FALSE, FALSE)
TriggeringEarly ==
    \E c \in Seconds \cup {"p1"}, verb \in TriggerVerbs, target \in {"", "b1"} :
        UserTrigger(c, verb, target, "ev", Num(1))

NextUninit == Initialising \/ Attaching \/ CallingEarly \/ TriggeringEarly \/ Delivering

SpecUninit == InitRegistered /\ [][NextUninit]_vars

\* the server calls a procedure of player p1's client, and the client of
\* player p2 sends responses under the ids the server awaits
CallingPlayer ==
    \E name \in UserNames, timeout \in BOOLEAN :
        UserCall("server", "callClient", "p1", name, Undefined, FALSE, timeout)

NextForged == CallingPlayer \/ Timing \/ Delivering \/ Forging

SpecForged == InitRegistered /\ [][NextForged]_vars

\* the clients of the two players each call the server once, with arguments
\* of several partials; each instance draws its ids by itself, so the two
\* requests may carry the same id
CallingSameId ==
    \E c \in Players, args \in LongArgs, drawn \in IdSpace :
        /\ \A k \in DOMAIN calls : calls[k].ctx # c
        /\ UserCallId(c, "callServer", "", "f", args, FALSE, FALSE, drawn, MaxPending)

NextSameId == CallingSameId \/ Delivering

SpecSameId == InitRegistered /\ [][NextSameId]_vars

\* client p1 calls the server and its webview, and the server and the webview
\* send responses under the ids the client awaits
CallingPeers ==
    \E verb \in {"callServer", "callBrowser"}, timeout \in BOOLEAN :
        UserCall("p1", verb, IF verb = "callBrowser" THEN "b1" ELSE "", "f", Undefined,
                 FALSE, timeout)
ForgingAtClient ==
    \E l \in {<<"server", "p1">>, <<"b1", "p1">>}, id \in 1..uidNext,
       type \in {"RESPONSE_SUCCESS", "RESPONSE_ERROR"} :
        ForgeOn(l, id, type)

NextPeers == CallingPeers \/ Timing \/ Delivering \/ ForgingAtClient

SpecPeers == InitRegistered /\ [][NextPeers]_vars

\* the webviews of client p1 register and unregister "f", the client processes
\* their announcements, and the client, a webview and the server call
\* callBrowsers
RegisteringAgain ==
    \E c \in Browsers :
        /\ valid[c]
        /\ Len(net[<<c, Owner(c)>>]) < MaxQueue
        /\ register(c, "f", Ret(Returns(c)))
UnregisteringSurface ==
    \E c \in Browsers :
        /\ valid[c]
        /\ rpcListeners[c]["f"] \in UserHandlers
        /\ unregister(c, "f")

NextClaims ==
    \/ RegisteringAgain \/ UnregisteringSurface \/ CallingBrowsers
    \/ Claiming \/ Delivering

SpecClaims == InitRegistered /\ [][NextClaims]_vars

\* ------------------------------------------------------------------- claims
\* the calls that sent a request to another context: those of user code, and
\* those that expect a response (the client's relayed calls included)
RemoteCalls == {k \in UserCalls : calls[k].remote}
Expecting == {k \in DOMAIN calls : calls[k].remote /\ ~calls[k].noRet}

\* no context has a handler registered under the name
Unregistered(name) == \A c \in Ctx : rpcListeners[c][name] \in {Absent, HUndefined}

\* the last step processed the last partial of a response with the call's id
\* in the call's context
ResponseProcessed(k) ==
    /\ last.op = "deliver" /\ last.type # "REQUEST"
    /\ last.ctx = calls[k].ctx /\ last.id = calls[k].id
    /\ last.id \in DOMAIN rpcIncoming[last.ctx]
    /\ rpcIncoming[last.ctx][last.id].recv >= rpcIncoming[last.ctx][last.id].total

\* C2 (as stated): a call that expects a response, to a name under which no
\* context has a registered handler, never resolves successfully
C2_NotFoundNeverResolves ==
    \A k \in UserCalls :
        (~calls[k].noRet /\ Unregistered(calls[k].name)) => calls[k].outer[1] # "resolved"

\* C3: a response-expecting remote call is settled at most once: an outcome,
\* once fixed by a response or by the timer, never changes; the step that
\* consumes a response deletes the pending entry; a later response with the
\* same id changes no call
C3_SettledOnce ==
    [][\A k \in Expecting :
          /\ calls[k].outer # Pending => calls'[k].outer = calls[k].outer
          /\ calls[k].inner # Pending => calls'[k].inner = calls[k].inner
          /\ (calls[k].inner = Pending /\ calls'[k].inner # Pending)
                => calls[k].id \notin DOMAIN rpcPending'[calls[k].ctx]
          /\ (calls[k].inner # Pending /\ ResponseProcessed(k)')
                => calls' = calls /\ rpcPending' = rpcPending]_vars

\* a second response for a call's id was processed after the first was consumed
C3_Witness ==
    \E k \in Expecting :
        /\ calls[k].inner # Pending /\ ResponseProcessed(k) /\ last.k = 0
        /\ rpcIncoming[last.ctx][last.id].recv > rpcIncoming[last.ctx][last.id].total

\* C4: on the server, processing a response whose id is pending for another
\* player settles no call and leaves the entry in place, still expecting the
\* player the call was issued to
C4_ForeignResponseDropped ==
    [][\A id \in DOMAIN rpcPending["server"] :
          (/\ last'.op = "deliver" /\ last'.ctx = "server" /\ last'.type # "REQUEST"
           /\ last'.id = id /\ last'.from # rpcPending["server"][id].player)
            => /\ id \in DOMAIN rpcPending'["server"]
               /\ rpcPending'["server"][id] = rpcPending["server"][id]
               /\ calls' = calls]_vars

\* the server has processed p2's response to a call it issued to p1
C4_Witness ==
    \E k \in Expecting :
        /\ calls[k].ctx = "server" /\ ResponseProcessed(k) /\ last.from = "p2"
        /\ calls[k].id \in DOMAIN rpcPending["server"]
        /\ rpcPending["server"][calls[k].id].player = "p1"
        /\ calls[k].inner = Pending

\* C5: when the timer of a remote call fires before a response was consumed
\* the call is rejected with TIMEOUT; the first response processed after that
\* throws nothing in the dispatcher and leaves the call rejected with TIMEOUT
C5_Timeout ==
    [][\A k \in Expecting :
          /\ (calls[k].timer = "armed" /\ calls'[k].timer = "fired" /\ calls[k].inner = Pending)
                => calls'[k].outer = Rejected(TIMEOUT)
          /\ (/\ calls[k].timer = "fired" /\ calls[k].outer = Rejected(TIMEOUT)
              /\ calls[k].inner = Pending /\ ResponseProcessed(k)')
                => ~last'.threw /\ calls'[k].outer = Rejected(TIMEOUT)]_vars

\* a response was consumed after the call had timed out
C5_Witness ==
    \E k \in Expecting :
        /\ calls[k].timer = "fired" /\ calls[k].outer = Rejected(TIMEOUT)
        /\ calls[k].inner # Pending /\ ResponseProcessed(k) /\ last.k = k

\* C6 (as stated): once a remote call has timed out, the timeout path has
\* removed its entry from rpcPending
C6_TimeoutRemovesEntry ==
    \A k \in DOMAIN calls :
        (calls[k].timer = "fired" /\ calls[k].outer = Rejected(TIMEOUT))
            => calls[k].id \notin DOMAIN rpcPending[calls[k].ctx]

\* C7 (as stated): a remote call issued with noRet is resolved with no value
\* as soon as it is issued
C7_NoRetResolvesAtOnce ==
    \A k \in RemoteCalls : calls[k].noRet => calls[k].outer = Resolved(Undefined)

\* C7 (amended): a remote call issued with noRet is not resolved at the call
\* site, neither when issued nor later, with or without a value
C7_NoRetNeverResolved ==
    \A k \in RemoteCalls : calls[k].noRet => calls[k].outer[1] # "resolved"

\* the remote handler has run for a noRet call whose promise is still pending
C7_Witness ==
    \E k \in RemoteCalls :
        /\ calls[k].noRet /\ calls[k].outer = Pending
        /\ last.op = "deliver" /\ last.type = "REQUEST" /\ last.id = calls[k].id
        /\ last.proc = calls[k].name /\ last.h[1] = "ret"

\* C8 (as stated): a call issued with noRet creates no entry in the caller's
\* rpcPending, and no response is sent for it
C8_NoRetNoEntryNoResponse ==
    \A k \in UserCalls :
        calls[k].noRet =>
            /\ calls[k].id \notin DOMAIN rpcPending[calls[k].ctx]
            /\ \A l \in Links : \A i \in 1..Len(net[l]) :
                    ~(net[l][i].type # "REQUEST" /\ net[l][i].id = calls[k].id)

Asked(k) ==
    /\ k \in Expecting /\ k \in UserCalls
    /\ calls[k].name = "f"
    /\ calls[k].to \in Ctx
    /\ rpcListeners[calls[k].to]["f"] = Ret(Returns(calls[k].to))

\* the call's promise is resolved with the value the callee's procedure returns
Answered(k) == k \in DOMAIN calls /\ calls[k].outer = Resolved(Returns(calls[k].to))

\* C1: over a transport that delivers every event once and in order, a
\* response-expecting remote call to a procedure of another context that
\* returns v is eventually resolved with v, and until then it is pending: it
\* is never rejected and never resolved with another value
C1_ResolvesWithValue ==
    /\ \A k \in 1..(2 * MaxCalls) : Asked(k) ~> Answered(k)
    /\ [](\A k \in DOMAIN calls : Asked(k) => calls[k].outer = Pending \/ Answered(k))

\* a webview's callServer, relayed by its client, resolved with the value the
\* server's procedure returns, which came back in several partials
C1_Witness ==
    \E k \in DOMAIN calls :
        /\ Asked(k) /\ calls[k].ctx = "b1" /\ calls[k].verb = "callServer"
        /\ calls[k].outer = Resolved(Num(12345))
        /\ rpcIncoming["p1"][calls[k].id + 1].total > 1

\* C10: while a handler unregistered in a context has not been registered
\* again, a local call or a request for its name in that context finds no
\* listener and fails with PROCEDURE_NOT_FOUND, which is what a local caller
\* gets and what is sent back to a remote one; unregister changes the listener
\* of no other name or context
C10_UnregisteredNotFound ==
    [][/\ last'.op = "unregister" =>
            \A c \in Ctx, n \in Names :
                <<c, n>> # <<last'.ctx, last'.proc>>
                    => rpcListeners'[c][n] = rpcListeners[c][n]
       /\ (/\ last'.op \in Verbs \cup {"deliver"}
           /\ <<last'.ctx, last'.proc>> \in unregistered')
            => /\ last'.h = HUndefined
               /\ last'.res = Rejected(ERR_NOT_FOUND)
               /\ last'.op = "deliver" => last'.sent = 1
               /\ last'.op \in Verbs => calls'[Len(calls')].outer = Rejected(ERR_NOT_FOUND)]_vars

\* a request for a name registered and then unregistered in the server was
\* answered with PROCEDURE_NOT_FOUND while another name kept its handler
C10_Witness ==
    /\ last.op = "deliver" /\ last.ctx = "server" /\ last.proc = "f"
    /\ <<"server", "f">> \in unregistered
    /\ last.res = Rejected(ERR_NOT_FOUND)

\* C11: init(ns) throws 'Already initialized.' in an instance that has a
\* namespace, else 'Must specify a namespace.' for the empty namespace, else
\* that the namespace is in use when the context's namespace list has it; a
\* failed init leaves the instance's namespace, the namespace list, the
\* listeners and the hooked events as they were; a successful init adds the
\* namespace to the context's list; no step of any operation takes a
\* namespace out of a context's list
C11_InitGuards ==
    [][/\ \A x \in Contexts : namespaces[x] \subseteq namespaces'[x]
       /\ last'.op = "init" =>
            LET c == last'.ctx
                ns == last'.proc
            IN /\ rpcNamespace[c] # "" => last'.err = "Already initialized."
               /\ (rpcNamespace[c] = "" /\ ns = "")
                    => last'.err = "Must specify a namespace."
               /\ (rpcNamespace[c] = "" /\ ns # "" /\ ns \in namespaces[Process(c)])
                    => last'.err = "Namespace is already in use."
               /\ (rpcNamespace[c] = "" /\ ns # "" /\ ns \notin namespaces[Process(c)])
                    => last'.err = ""
               /\ last'.err # ""
                    => /\ rpcNamespace' = rpcNamespace /\ namespaces' = namespaces
                       /\ rpcListeners' = rpcListeners /\ hooks' = hooks
               /\ last'.err = ""
                    => /\ rpcNamespace'[c] = ns
                       /\ namespaces'[Process(c)] = namespaces[Process(c)] \cup {ns}]_vars

\* the second instance of client p1 asked for the namespace of the first and
\* was refused
C11_Witness ==
    /\ last.op = "init" /\ last.ctx = "q1" /\ last.proc = "a"
    /\ last.err = "Namespace is already in use."
    /\ rpcNamespace["q1"] = "" /\ namespaces["p1"] = {"a"}

\* C12 (as stated): two instances of one context initialised with different
\* namespaces are isolated on every link: an event or a claim announcement is
\* only ever processed by an instance of the sender's namespace
C12_NamespacesIsolated ==
    last.op \in {"deliver", "claim"} => rpcNamespace[last.ctx] = rpcNamespace[last.from]

\* the name and the outcome of the _callBrowsers that the last step ran in a
\* client: for callBrowsers called in the client, or for a callBrowsers of
\* the server or of a webview that the client's pass-through procedure ran
BrowsersName ==
    IF last.op = "callBrowsers" /\ getEnvironment(last.ctx) = "client"
    THEN calls[Len(calls)].name
    ELSE IF last.op = "deliver" /\ last.proc = CALL_BROWSERS /\ last.args[1] = "arr"
    THEN NameOf(Elem(last.args, 1))
    ELSE ""
BrowsersRes == IF last.op = "callBrowsers" THEN calls[Len(calls)].inner ELSE last.res
BrowsersTo == IF BrowsersRes = Pending THEN calls[Len(calls)].to ELSE ""

Providers(c, n) ==
    {b \in rpcBrowsers[c] : valid[b] /\ n \in Names /\ rpcListeners[b][n][1] \in {"ret", "throw"}}

\* C14 (as stated): when the client runs callBrowsers(n) while at least one
\* added, valid webview has n registered, the request is sent to a webview
\* that has n registered
C14_ReachesARegisteredSurface ==
    (BrowsersName # "" /\ Providers(last.ctx, BrowsersName) # {})
        => BrowsersTo \in Providers(last.ctx, BrowsersName)

\* C15 (as stated): callBrowsers(n) run in the client fails with
\* PROCEDURE_NOT_FOUND when no webview has claimed n, and with
\* INVALID_BROWSER when the webview that claimed n is no longer valid
C15_NotFoundOrInvalid ==
    BrowsersName # "" =>
        LET claims == rpcBrowserProcedures[last.ctx] IN
        /\ BrowsersName \notin DOMAIN claims => BrowsersRes = Rejected(ERR_NOT_FOUND)
        /\ (BrowsersName \in DOMAIN claims /\ ~valid[claims[BrowsersName]])
                => BrowsersRes = Rejected(INVALID_BROWSER)

\* the last step processed a complete request and called the procedure
RequestDispatched == last.op = "deliver" /\ last.type = "REQUEST" /\ last.proc # ""

\* the values JSON represents: no undefined and no NaN inside an array
RECURSIVE IsJson(_)
IsJson(v) ==
    CASE v[1] \in {"undefined", "nan"} -> FALSE
      [] v[1] = "arr" -> \A i \in DOMAIN v[2] : IsJson(v[2][i])
      [] OTHER -> TRUE

\* C16 (as stated): the arguments a procedure is called with for a request
\* are equal to the arguments that were put in the request, for every JSON
\* value, whether the serialised arguments went in one partial or in several
C16_ArgsRoundTrip ==
    RequestDispatched =>
        \A k \in DOMAIN calls :
            (calls[k].id = last.id /\ IsJson(calls[k].sent)) => last.args = calls[k].sent

\* C17 (as stated): whatever the transport does with the partials, a remote
\* call to a procedure that returns v is never resolved with a value other
\* than v, and a procedure is never called with arguments other than those
\* put in the request
C17_NoGarbledResult ==
    /\ \A k \in DOMAIN calls :
            (Asked(k) /\ calls[k].outer[1] = "resolved") => Answered(k)
    /\ RequestDispatched =>
            \A k \in DOMAIN calls :
                (calls[k].id = last.id /\ (IsJson(calls[k].sent) \/ calls[k].sent = Undefined))
                    => last.args = calls[k].sent

\* C18 (as stated): trigger(name, args) runs every handler subscribed to the
\* name, each once, also when one of them throws, and throws nothing to its
\* caller
C18_TriggerRunsAll ==
    last.op = "trigger" =>
        /\ last.ran = rpcEvListeners[last.ctx][last.proc]
        /\ ~last.threw

\* C19 (as stated): a remote call to a procedure whose handler fails with
\* reason r, undefined and null included, is rejected with r and is never
\* resolved
C19_FailureRejectsWithReason ==
    \A k \in UserCalls :
        LET h == IF calls[k].to \in Ctx THEN Listener(calls[k].to, calls[k].name)
                 ELSE HUndefined IN
        (calls[k].remote /\ ~calls[k].timeout /\ h[1] = "throw") =>
            calls[k].outer \in {Pending, Rejected(h[2])}

\* a user's call from the server to a webview or from a webview to the server
HopCall(k) ==
    /\ k \in UserCalls
    /\ \/ calls[k].ctx = "server" /\ calls[k].verb = "callBrowsers"
       \/ getEnvironment(calls[k].ctx) = "cef" /\ calls[k].verb = "callServer"

\* what the final target makes of the call: its handler's result, its
\* handler's failure, or PROCEDURE_NOT_FOUND when there is no claimant or no
\* handler
HopOutcome(k) ==
    LET h == IF calls[k].to \in Ctx THEN Listener(calls[k].to, calls[k].name)
             ELSE HUndefined IN
    CASE h[1] = "ret" -> Resolved(h[2])
      [] h[1] = "throw" -> Rejected(h[2])
      [] OTHER -> Rejected(ERR_NOT_FOUND)

HopDone(k) == k \in DOMAIN calls /\ calls[k].outer = HopOutcome(k)

\* C20: a server's callBrowsers(P, n) and a webview's callServer(n) complete
\* through the client: the call is eventually resolved with the result of the
\* final target's handler, or rejected with the reason of the failure at the
\* target or at the client (no claimant, no handler, handler error), and is
\* pending until then
C20_HopCompletes ==
    /\ \A k \in 1..(2 * MaxCalls) : HopCall(k) ~> HopDone(k)
    /\ [](\A k \in DOMAIN calls :
            HopCall(k) => calls[k].outer \in {Pending, HopOutcome(k)})

\* a webview's callServer rejected with what the server's handler threw, which
\* the client relayed
C20_Witness ==
    \E k \in DOMAIN calls, j \in DOMAIN calls :
        /\ HopCall(k) /\ calls[k].ctx = "b1"
        /\ calls[k].outer = Rejected(Str("boom"))
        /\ calls[j].verb = "relay" /\ calls[j].ctx = "p1"
        /\ calls[j].outer = Rejected(Str("boom"))

\* the record of the call that sent the request with this id
CallOf(id) == CHOOSE k \in DOMAIN calls : calls[k].remote /\ calls[k].id = id

\* the environment of the user code a request goes back to: the caller's, or
\* for a request a procedure of the client made, that of the request the
\* procedure was called for
RECURSIVE OriginEnvironment(_)
OriginEnvironment(k) ==
    IF calls[k].reply[1] = "user" \/ calls[k].reply[3] = 0
    THEN getEnvironment(calls[k].ctx)
    ELSE OriginEnvironment(CallOf(calls[k].reply[3]))

\* C21: the info.environment a procedure (and through the procedure that calls
\* events, an event handler) is invoked with for a request is the environment
\* of the original caller, also when the client relayed the request
C21_InfoNamesOrigin ==
    (last.op = "deliver" /\ last.type = "REQUEST" /\ last.proc # "") =>
        last.env = OriginEnvironment(CallOf(last.id))

\* a webview's event handler ran for the server's triggerBrowsers, which the
\* client relayed, and was told the server is the caller
C21_Witness ==
    /\ last.op = "deliver" /\ last.type = "REQUEST" /\ last.ctx = "b1"
    /\ last.ran # <<>>
    /\ last.env = "server"
    /\ calls[CallOf(last.id)].verb = "relay"

\* C22 (as stated): in every context, the server included, processing a
\* response whose id has no entry in rpcPending raises no error, settles no
\* call and leaves rpcPending as it is
C22_UnknownResponseDropped ==
    [][(/\ last'.op = "deliver"
        /\ last'.type \in {"RESPONSE_SUCCESS", "RESPONSE_ERROR"}
        /\ last'.id \notin DOMAIN rpcPending[last'.ctx])
       => (/\ ~last'.threw
           /\ rpcPending' = rpcPending
           /\ calls' = calls)]_vars

\* the step processed the last event of a message whose payload JSON.parse
\* rejects
Undeserialisable ==
    /\ last'.op = "deliver"
    /\ last'.id \in DOMAIN rpcIncoming'[last'.ctx]
    /\ LET incoming == rpcIncoming'[last'.ctx][last'.id] IN
        /\ incoming.recv >= incoming.total
        /\ incoming.hasArgs
        /\ parseData(incoming.args) = Undefined

\* C23 (as stated): a message whose payload fails to deserialise is dropped:
\* no procedure is invoked for it, no response is sent for it and no pending
\* call is settled by it
C23_UndeserialisableDropped ==
    [][Undeserialisable =>
          (/\ last'.proc = ""
           /\ last'.sent = 0
           /\ calls' = calls
           /\ rpcPending' = rpcPending)]_vars

\* the response messages with this id in a sequence of events, counted by
\* their first partials
RECURSIVE ResponsesIn(_, _)
ResponsesIn(q, id) ==
    IF q = <<>> THEN 0
    ELSE (IF /\ Head(q).ev = PROCESS_EVENT /\ Head(q).type # "REQUEST"
             /\ Head(q).id = id /\ Head(q).part = 1 THEN 1 ELSE 0)
         + ResponsesIn(Tail(q), id)

\* the events a step appended to a link
Appended(l) ==
    IF Len(net'[l]) > Len(net[l]) THEN SubSeq(net'[l], Len(net[l]) + 1, Len(net'[l]))
    ELSE <<>>

\* the response messages for a request that context c sent in a step
RECURSIVE ResponsesSent(_, _, _)
ResponsesSent(c, id, links) ==
    IF links = {} THEN 0
    ELSE LET l == CHOOSE l \in links : TRUE IN
         (IF l[1] = c THEN ResponsesIn(Appended(l), id) ELSE 0)
         + ResponsesSent(c, id, links \ {l})

\* the promise of the procedure called for a request, which wants a response
Awaited(cs, k) == k \in DOMAIN cs /\ cs[k].reply[1] = "reply"

\* C24: for a request that wants a response and whose procedure returned a
\* promise, a step sends a response message for the request exactly when the
\* promise settles in that step, and then it sends one: none before, one
\* after, never a second
C24_OneResponseAfterSettling ==
    [][\A k \in DOMAIN calls' :
          Awaited(calls', k) =>
             LET c == calls'[k].ctx
                 id == calls'[k].reply[3]
                 before == IF k \in DOMAIN calls THEN calls[k].inner ELSE Pending
                 settles == before = Pending /\ calls'[k].inner # Pending
             IN ResponsesSent(c, id, Links) = (IF settles THEN 1 ELSE 0)]_vars

\* the promise a client's procedure returned was rejected by its code and
\* the one response was sent to the server, in one error message
C24_Witness ==
    /\ last.op = "settle" /\ last.ctx = "p1" /\ last.sent = 1
    /\ Awaited(calls, last.k)
    /\ calls[last.k].inner = Rejected(Str("boom"))
    /\ ResponsesIn(net[<<"p1", "server">>], calls[last.k].reply[3]) = 1

\* a user's triggerBrowsers
TriggerBrowsersCall(k) == k \in UserCalls /\ calls[k].verb = "triggerBrowsers"

\* the client the triggerBrowsers of a context goes to
TriggerClient(k) ==
    IF getEnvironment(calls[k].ctx) = "server" THEN calls[k].to
    ELSE IF getEnvironment(calls[k].ctx) = "cef" THEN Owner(calls[k].ctx)
    ELSE calls[k].ctx

\* the client has run its procedure for the triggerBrowsers
FannedOut(k) ==
    /\ TriggerBrowsersCall(k)
    /\ \/ ~calls[k].remote
       \/ /\ calls[k].id \in DOMAIN rpcIncoming[TriggerClient(k)]
          /\ rpcIncoming[TriggerClient(k)][calls[k].id].recv >= 1

\* the request the client sent to one webview for a triggerBrowsers
FanRequest(j) ==
    /\ j \in DOMAIN calls
    /\ calls[j].verb = "relay" /\ calls[j].to \in Browsers
    /\ calls[j].name \in TriggerNames

\* the webview has processed the request, or the webview is gone
FanHandled(j) ==
    /\ FanRequest(j)
    /\ \/ calls[j].id \in DOMAIN rpcIncoming[calls[j].to]
       \/ ~valid[calls[j].to]

\* a webview that has just processed such a request ran its subscribers,
\* each once and in order, and sent nothing back
SubscribersRan ==
    (last.op = "deliver" /\ last.ctx \in Browsers /\ last.h = Builtin(TRIGGER_EVENT)) =>
        /\ last.ran = rpcEvListeners[last.ctx]["e"]
        /\ last.sent = 0

\* the step ran the client's procedure that sends an event to all browsers
FanStep ==
    /\ last'.h = Builtin(TRIGGER_EVENT_BROWSERS)
    /\ last'.op \in {"deliver", "triggerBrowsers"}

RECURSIVE Payload(_)
Payload(msgs) == IF msgs = <<>> THEN <<>> ELSE Head(msgs).args \o Payload(Tail(msgs))

\* a run of partials is one logical message: one id, type and total, and the
\* parts 1, 2, ..., total in that order
OneMessage(msgs) ==
    /\ msgs # <<>>
    /\ \A i \in DOMAIN msgs :
        /\ msgs[i].id = msgs[1].id /\ msgs[i].type = msgs[1].type
        /\ msgs[i].total = Len(msgs)
        /\ msgs[i].part = i

\* the links whose sender splits the payload: those with no webview at
\* either end
SplitLinks == {l \in Links : l[1] \notin Browsers /\ l[2] \notin Browsers}

\* what a step's call function handed to sendEvent, and what it emitted
CallSent == calls'[Len(calls')].sent
CallStep == Len(calls') = Len(calls) + 1 /\ calls'[Len(calls')].remote

\* C26: the envelopes sendEvent emits for one logical message have one id,
\* type and total and the parts 1..total in order, each chunk is no longer
\* than the chunk bound where the sender splits, and the chunks concatenate
\* to the serialised arguments; undefined arguments give one envelope with
\* part 1 of 1 and no chunk; so 1 <= part <= total for every envelope sent.
C26_SendEventPartials ==
    [][\A l \in Links : Appended(l) # <<>> =>
          /\ OneMessage(Appended(l))
          /\ \A i \in DOMAIN Appended(l) :
                /\ 1 <= Appended(l)[i].part /\ Appended(l)[i].part <= Appended(l)[i].total
                /\ l \in SplitLinks => Len(Appended(l)[i].args) <= ChunkSize
          /\ CallStep =>
                IF CallSent = Undefined
                THEN /\ Len(Appended(l)) = 1
                     /\ ~Appended(l)[1].hasArgs
                ELSE /\ \A i \in DOMAIN Appended(l) : Appended(l)[i].hasArgs
                     /\ Payload(Appended(l)) = stringifyData(CallSent)]_vars


\* what the receiving context holds for the event of the step just taken
IncomingOfStep == rpcIncoming'[last'.ctx][last'.id]

\* the step called a procedure for a request, or resolved a pending call
DispatchStep ==
    /\ last'.op = "deliver"
    /\ \/ last'.type = "REQUEST" /\ last'.proc # ""
       \/ last'.type # "REQUEST" /\ last'.k # 0

\* C27: the dispatcher dispatches the message of an id in the step in which
\* the number of envelopes received for the id becomes equal to total, with
\* the chunks concatenated in arrival order as payload; never with fewer, and
\* an envelope that arrives for the id after that step causes no second
\* handler invocation and no second resolution.
C27_DispatchedOnceWhenComplete ==
    [][DispatchStep =>
          /\ last'.id \in DOMAIN rpcIncoming'[last'.ctx]
          /\ IncomingOfStep.recv = IncomingOfStep.total
          /\ last'.type = "REQUEST" =>
                last'.args = (IF IncomingOfStep.hasArgs THEN parseData(IncomingOfStep.args)
                              ELSE Undefined)]_vars


\* C28: an entry of the table of incoming events exists for an id only
\* between the first envelope received for it and its dispatch: once the
\* count has reached total the entry is removed, so every entry is that of a
\* partially received message and the table is empty when there is none.
C28_IncomingFreed ==
    \A c \in Ctx : \A id \in DOMAIN rpcIncoming[c] :
        /\ 1 <= rpcIncoming[c][id].recv
        /\ rpcIncoming[c][id].recv < rpcIncoming[c][id].total


\* the calls of a context that wait for a response
PendingCalls(c) ==
    {k \in DOMAIN calls : /\ calls[k].ctx = c /\ calls[k].remote /\ ~calls[k].noRet
                          /\ calls[k].inner = Pending}

\* C29: within one context no two calls that are pending at the same time
\* have the same id: a new remote call never overwrites an entry of the
\* pending table, so a response resolves only the call whose request carried
\* its id (a call of a procedure the callee does not have is never resolved
\* with a value).
C29_PendingIdsDistinct ==
    /\ [](\A c \in Ctx : \A j, k \in PendingCalls(c) : j # k => calls[j].id # calls[k].id)
    /\ [][\A c \in Ctx : \A id \in DOMAIN rpcPending[c] :
            id \in DOMAIN rpcPending'[c] => rpcPending'[c][id] = rpcPending[c][id]]_vars
    /\ [](\A k \in DOMAIN calls :
            (calls[k].verb \in Verbs /\ calls[k].name = "g") => calls[k].outer[1] # "resolved")


\* the context a response put on link l goes back to is that of the instance
\* that sent the request: that very webview, or an instance of that player's
\* client, or the server
BackToSender(l, id) ==
    /\ \E k \in DOMAIN calls : calls[k].remote /\ calls[k].id = id
    /\ LET sender == calls[CallOf(id)].ctx IN
       IF getEnvironment(sender) = "cef" THEN l[2] = sender
       ELSE Process(l[2]) = Process(sender)

\* C30: the response to a request is sent only to the sender of the request:
\* by the server to the player that delivered it, who is also the handler's
\* info.player; by a client to the server for a request of the server, and to
\* the calling webview and no other for a request of a webview; by a webview
\* to the client that owns it.
C30_ResponseToSender ==
    /\ [][\A l \in Links : \A i \in DOMAIN Appended(l) :
            Appended(l)[i].type # "REQUEST" =>
                /\ l[1] = last'.ctx
                /\ BackToSender(l, Appended(l)[i].id)
                /\ getEnvironment(l[1]) = "cef" => l[2] \in Clients /\ Process(l[2]) = Owner(l[1])
                /\ getEnvironment(l[1]) = "client" => l[2] \in Browsers \cup {"server"}
                /\ getEnvironment(l[1]) = "server" => l[2] \in Clients]_vars
    /\ []((/\ last.op = "deliver" /\ last.type = "REQUEST" /\ last.proc # ""
           /\ getEnvironment(last.ctx) = "server")
              => last.player = Process(calls[CallOf(last.id)].ctx))

\* client p1 has answered webview b2, and nothing is on its way to b1
C30_Witness ==
    /\ last.op = "deliver" /\ last.type = "REQUEST"
    /\ last.ctx = "p1" /\ last.from = "b2"
    /\ last.sent > 0
    /\ net[<<"p1", "b2">>] # <<>>
    /\ net[<<"p1", "b1">>] = <<>>


\* the step is a callBrowser or triggerBrowser whose webview is absent, or
\* not valid when the function is called
ToInvalidSurface ==
    /\ last'.op \in {"callBrowser", "triggerBrowser"}
    /\ LET b == calls'[Len(calls')].to IN b \notin Browsers \/ ~valid[b]

OutcomeOf(h) ==
    CASE h[1] = "ret" -> Resolved(h[2])
      [] h[1] = "throw" -> Rejected(h[2])
      [] h[1] = "later" -> Pending
      [] OTHER -> Rejected(ERR_NOT_FOUND)

LocalCalls == {k \in UserCalls : Local(calls[k].ctx, calls[k].verb)}

\* C32: a local call (call, callServer on the server, callClient on the
\* client) invokes the handler of the same context directly: it sends no
\* event and creates no pending or incoming entry, and its outcome is the
\* handler's result, PROCEDURE_NOT_FOUND, or TIMEOUT when a timeout elapses
\* first.
C32_LocalCallDirect ==
    /\ [][(last'.op \in Verbs /\ Local(last'.ctx, last'.op)) =>
            /\ net' = net /\ rpcPending' = rpcPending /\ rpcIncoming' = rpcIncoming
            /\ last'.h = Lookup(last'.ctx, last'.proc)
            /\ calls'[Len(calls')].inner = OutcomeOf(last'.h)
            /\ calls'[Len(calls')].outer = OutcomeOf(last'.h)]_vars
    /\ [](\A k \in LocalCalls :
            \/ calls[k].outer = calls[k].inner
            \/ /\ calls[k].timeout /\ calls[k].timer = "fired"
               /\ calls[k].outer = Rejected(TIMEOUT))
    /\ [][\A k \in LocalCalls :
            calls[k].outer # Pending => (k \in DOMAIN calls' /\ calls'[k].outer = calls[k].outer)]_vars
    /\ [](\A l \in Links : net[l] = <<>>)
    /\ [](\A c \in Ctx : DOMAIN rpcPending[c] = {} /\ DOMAIN rpcIncoming[c] = {})

\* a local call whose handler's promise was still pending when its timeout
\* elapsed, and that settled afterwards
C32_Witness ==
    \E k \in LocalCalls :
        /\ calls[k].verb = "callClient"
        /\ calls[k].outer = Rejected(TIMEOUT)
        /\ calls[k].inner = Resolved(Num(12345))


\* the remote calls of user code that want a response
Outstanding == {k \in UserCalls : calls[k].remote /\ ~calls[k].noRet}

\* the promise the callee's handler returned for the request of call k
HandlerOf(k) ==
    {j \in DOMAIN calls : /\ calls[j].verb = "handler" /\ calls[j].ctx = calls[k].to
                          /\ calls[j].reply[3] = calls[k].id}

\* C33: with several remote calls of one context outstanding at once, the
\* responses arrive in any order and each call is resolved with the response
\* to its own request; consuming the response of one call leaves the pending
\* entries of the other calls unchanged.
C33_ConcurrentCalls ==
    /\ [](\A k \in Outstanding :
            IF calls[k].outer = Pending
            THEN /\ calls[k].id \in DOMAIN rpcPending[calls[k].ctx]
                 /\ rpcPending[calls[k].ctx][calls[k].id].resolve = k
            ELSE \E j \in HandlerOf(k) : calls[j].inner = calls[k].outer)
    /\ [][(last'.op = "deliver" /\ last'.type # "REQUEST") =>
            /\ \A id \in DOMAIN rpcPending[last'.ctx] \ {last'.id} :
                    /\ id \in DOMAIN rpcPending'[last'.ctx]
                    /\ rpcPending'[last'.ctx][id] = rpcPending[last'.ctx][id]
            /\ \A k \in Outstanding : calls[k].id # last'.id => calls'[k].outer = calls[k].outer]_vars

\* of two calls client p1 sent to the server, the later one is resolved and
\* the earlier one is still pending, with its entry
C33_Witness ==
    \E j, k \in Outstanding :
        /\ j < k
        /\ calls[j].ctx = "p1" /\ calls[k].ctx = "p1"
        /\ calls[j].to = "server" /\ calls[k].to = "server"
        /\ calls[k].outer = Resolved(Num(12345))
        /\ calls[j].outer = Pending
        /\ calls[j].id \in DOMAIN rpcPending["p1"]


\* the text received so far for an id is the beginning of the serialised
\* arguments of the request with that id
OwnChunksOnly(c, id) ==
    LET full == stringifyData(calls[CallOf(id)].sent)
        got == rpcIncoming[c][id].args
    IN /\ Len(got) <= Len(full)
       /\ got = SubSeq(full, 1, Len(got))

\* C34: when the chunk sequences of two messages with different ids are
\* interleaved at one receiver, each in its own order, each message is
\* reassembled to its own payload and dispatched once; the chunks of one id
\* are never appended to the accumulator of another.
C34_InterleavedReassembly ==
    /\ [](\A id \in DOMAIN rpcIncoming["server"] :
            /\ OwnChunksOnly("server", id)
            /\ rpcIncoming["server"][id].recv <= rpcIncoming["server"][id].total)
    /\ [](RequestDispatched /\ last.ctx = "server" =>
            /\ last.args = calls[CallOf(last.id)].sent
            /\ rpcIncoming["server"][last.id].recv = rpcIncoming["server"][last.id].total)

\* the server has dispatched one request, complete and with its own
\* arguments, while the other request is partly received
C34_Witness ==
    /\ RequestDispatched /\ last.ctx = "server"
    /\ last.args = Arr(<<Num(1), Str("x"), Null>>)
    /\ \E id \in DOMAIN rpcIncoming["server"] :
            /\ id # last.id
            /\ rpcIncoming["server"][id].recv >= 1
            /\ rpcIncoming["server"][id].recv < rpcIncoming["server"][id].total


\* the handlers subscribed to an event name in a context
Subscribed(listeners, c, name) ==
    IF name \in EvNames THEN {listeners[c][name][i] : i \in DOMAIN listeners[c][name]}
    ELSE {}

\* every other context and name keeps its handlers
OthersKept(c, name) ==
    \A d \in Ctx : \A n \in EvNames :
        (d # c \/ n # name) => rpcEvListeners'[d][n] = rpcEvListeners[d][n]

\* C35 (as stated): after any sequence of on and off calls the handlers
\* subscribed to an event name are exactly those added with on and not
\* removed with off since: on(name, h) subscribes h, once; off(name, h)
\* removes h only; both leave the other handlers and names as they are.
C35_SubscribersExact ==
    /\ [][last'.op = "on" =>
            /\ ~last'.threw
            /\ Subscribed(rpcEvListeners', last'.ctx, last'.proc)
                  = Subscribed(rpcEvListeners, last'.ctx, last'.proc) \cup {last'.h}
            /\ OthersKept(last'.ctx, last'.proc)]_vars
    /\ [][last'.op = "off" =>
            /\ ~last'.threw
            /\ Subscribed(rpcEvListeners', last'.ctx, last'.proc)
                  = Subscribed(rpcEvListeners, last'.ctx, last'.proc) \ {last'.h}
            /\ OthersKept(last'.ctx, last'.proc)]_vars
    /\ [](\A c \in Ctx : \A n \in EvNames :
            Cardinality(Subscribed(rpcEvListeners, c, n)) = Len(rpcEvListeners[c][n]))


\* an instance without a namespace has sent nothing, awaits nothing and has
\* no promise of a call
UninitQuiet ==
    \A c \in Ctx :
        rpcNamespace[c] = "" =>
            /\ rpcPending[c] = <<>>
            /\ \A l \in Links : l[1] = c => net[l] = <<>>
            /\ \A k \in DOMAIN calls : calls[k].ctx # c

\* a remote verb or trigger verb called in an instance without a namespace
EarlyCall ==
    /\ last' # last
    /\ last'.op \in RemoteVerbs \cup TriggerVerbs
    /\ rpcNamespace[last'.ctx] = ""

\* C36: an instance that has not completed init never sends a request and
\* never creates a PendingCall entry: each of callServer, callClient,
\* callBrowsers, callBrowser, triggerServer, triggerClient, triggerBrowsers
\* and triggerBrowser throws at the call site, before any state change and
\* before any send.
C36_UninitNeverSends ==
    /\ []UninitQuiet
    /\ [][EarlyCall =>
             /\ last'.threw
             /\ last'.err = NO_NAMESPACE
             /\ UNCHANGED <<net, rpcPending, rpcIncoming, rpcListeners, rpcBrowsers,
                            rpcBrowserProcedures, calls, uidNext, setup>>]_vars

C36_Witness ==
    /\ last.op \in RemoteVerbs \cup TriggerVerbs
    /\ last.threw
    /\ rpcNamespace[last.ctx] = ""
    /\ last.err = NO_NAMESPACE


\* the server's calls to a player's client
PlayerCalls == {k \in UserCalls : calls[k].ctx = "server" /\ calls[k].verb = "callClient"}

\* what the called player's procedure settles call k with
CalleeOutcome(k) == OutcomeOf(Lookup(calls[k].to, calls[k].name))

\* the partials the server keeps under the id of call k hold nothing but what
\* the called player's client sent
OnlyFromCallee(k) ==
    calls[k].id \in DOMAIN rpcIncoming["server"] =>
        LET incoming == rpcIncoming["server"][calls[k].id] IN
            /\ incoming.recv <= incoming.total
            /\ incoming.args \in {<<>>, stringifyData(CalleeOutcome(k)[2])}

\* C37 (as stated): on the server, after a response with the id of a call
\* from a player other than the one called has been dropped, the response of
\* the called player still resolves the call with exactly that player's
\* payload, and nothing of the other player's envelope, its text or its
\* count, is kept in a table and used when the response is reassembled
C37_ForgedResponseLeavesNoTrace ==
    \A k \in PlayerCalls :
        /\ calls[k].inner \in {Pending, CalleeOutcome(k)}
        /\ OnlyFromCallee(k)


\* the call of sender p that carries the id
CallFrom(p, id) == CHOOSE k \in DOMAIN calls : calls[k].ctx = p /\ calls[k].id = id

\* C38 (as stated): on the server, when two players each send a request of
\* several partials under the same id and the partials interleave, each
\* request is reassembled from its own sender's partials only and dispatched
\* once, when complete, with its own payload and with its own sender as
\* info.player
C38_ReassemblyPerSender ==
    (RequestDispatched /\ last.ctx = "server") =>
        /\ last.args = calls[CallFrom(last.from, last.id)].sent
        /\ last.player = last.from
        /\ rpcIncoming["server"][last.id].recv = rpcIncoming["server"][last.id].total


\* the step processed a response that settled the promise of call k
SettledByResponse(k) ==
    /\ last'.op = "deliver"
    /\ last'.type \in {"RESPONSE_SUCCESS", "RESPONSE_ERROR"}
    /\ k \in DOMAIN calls
    /\ calls[k].inner = Pending
    /\ calls'[k].inner # Pending

\* C39 (as stated): on the client, a pending call is resolved by a response
\* from the peer the request was sent to only: a response an attached
\* surface delivers never resolves a call sent to the server or to another
\* surface, and a response the server delivers never resolves a call sent to
\* a surface
C39_ResolvedByPeerOnly ==
    [][\A k \in DOMAIN calls :
          (SettledByResponse(k) /\ getEnvironment(calls[k].ctx) = "client")
              => last'.from = calls[k].to]_vars


\* the webview a client's map names for a procedure of the user's has a
\* handler registered under that name
ClaimantHasHandler ==
    \A c \in Clients : \A n \in DOMAIN rpcBrowserProcedures[c] \cap UserNames :
        rpcListeners[rpcBrowserProcedures[c][n]][n] \in UserHandlers

\* C40 (as stated): the surface the client's map names as claimant of a
\* procedure always has a handler registered for it: an unregister in the
\* surface retracts its claim, and callBrowsers is never routed to a surface
\* that has unregistered the procedure
C40_ClaimantRegistered ==
    /\ ClaimantHasHandler
    /\ (RequestDispatched /\ last.ctx \in Browsers /\ last.proc \in UserNames)
            => last.h \in UserHandlers

====
